---- MODULE Spec2Model ----
(***************************************************************************)
(* SmartMark: bookmark classification pipeline and migration planner.      *)
(*                                                                         *)
(* Strings.  A JavaScript string that is used as a folder path is modelled *)
(* as the sequence of its '/'-separated pieces, i.e. as the value of       *)
(* s.split('/'): "Tech/AI" is <<"Tech","AI">>, "AI/" is <<"AI","">> and    *)
(* the empty string is <<"">>.  `${a}/${b}` is then a \o b.  A piece never *)
(* contains '/', so the representation is one-to-one.  A folder title is   *)
(* a string too (a title may contain '/').                                 *)
(***************************************************************************)
EXTENDS Integers, Sequences, FiniteSets, TLC

VARIABLES
    nodes,          \* the bookmark store: id -> [parentId, title, url]
    nextId,         \* id the store gives to the next created node
    foc,            \* findOrCreateFolder activations, one per caller
    approvedMoves,  \* executeMigration: its argument
    mig,            \* executeMigration: position, loop index, results
    log,            \* executeMigration: the store calls issued, in order
    prop,           \* proposeBookmarkMoves: position, scan index, proposals
    cache,          \* chrome.storage.local: the folder list and its expiry
    now,            \* Date.now(), in milliseconds
    gs,             \* getBookmarkFolderStructure: the call in progress
    calls,          \* getBookmarkFolderStructure: its last two finished calls
    llm,            \* getFolderPathFromLLM: the classification call
    ai,             \* ai.js classifyBookmark: the classification call
    folderCache,    \* lib/bookmarks.js: folderCache and cacheTime
    tm,             \* TokenManager.optimizeContext: arguments and result
    sf,             \* SecuritySanitizer.sanitizeFolderPath: argument and result
    sp,             \* SecuritySanitizer.sanitizeForPrompt: argument and result
    wf,             \* performMigrationWorkflow: position, review call, result
    ex,             \* AIProvider.extractJsonArray: argument and result
    fs,             \* lib/bookmarks.js getFolderStructure: position, finished calls
    cp,             \* parseCategoryPath and buildCategoryPath: argument and results
    sq,             \* findOrCreateFolder called in sequence: position, finished calls
    er,             \* executeWithRecovery: options, position, attempts, outcome
    bc,             \* BookmarkClassifier: isClassifying, messages in flight, results
    mc,             \* MigrationController: proposals on review, selection, executions
    nm,             \* NotificationManager: queue, isProcessing, notifications shown
    cm              \* migrateSettings: position, storage, report

vars == <<nodes, nextId, foc, approvedMoves, mig, log, prop, cache, now, gs, calls,
          llm, ai, folderCache, tm, sf, sp, wf, ex, fs, cp, sq, er, bc, mc, nm, cm>>

\* the state of the pure utilities, which no other operation touches
utilVars == <<tm, sf, sp, ex>>

classifyVars == <<llm, ai, folderCache>>

cacheVars == <<cache, now, gs, calls>>

\* the state of the other modules, one variable each
moduleVars == <<fs, cp, sq, er, bc, mc, nm, cm>>

\* the state of everything else
programVars == <<nodes, nextId, foc, approvedMoves, mig, log, prop, wf, cacheVars,
                 classifyVars, utilVars>>

\* the modules other than the one of fs
FsOthers == <<cp, sq, er, bc, mc, nm, cm>>

\* what the steps on fs never touch
FsFrame == <<programVars, FsOthers>>

\* the modules other than the one of cp
CpOthers == <<fs, sq, er, bc, mc, nm, cm>>

\* what the steps on cp never touch
CpFrame == <<programVars, CpOthers>>

\* the modules other than the one of sq
SqOthers == <<fs, cp, er, bc, mc, nm, cm>>

\* what the steps on sq never touch
SqFrame == <<programVars, SqOthers>>

\* the modules other than the one of er
ErOthers == <<fs, cp, sq, bc, mc, nm, cm>>

\* what the steps on er never touch
ErFrame == <<programVars, ErOthers>>

\* the modules other than the one of bc
BcOthers == <<fs, cp, sq, er, mc, nm, cm>>

\* what the steps on bc never touch
BcFrame == <<programVars, BcOthers>>

\* the modules other than the one of mc
McOthers == <<fs, cp, sq, er, bc, nm, cm>>

\* what the steps on mc never touch
McFrame == <<programVars, McOthers>>

\* the modules other than the one of nm
NmOthers == <<fs, cp, sq, er, bc, mc, cm>>

\* what the steps on nm never touch
NmFrame == <<programVars, NmOthers>>

\* the modules other than the one of cm
CmOthers == <<fs, cp, sq, er, bc, mc, nm>>

\* what the steps on cm never touch
CmFrame == <<programVars, CmOthers>>

\* what the steps of findOrCreateFolder and executeMigration never touch
MigFrame == <<prop, wf, cacheVars, classifyVars, utilVars, moduleVars>>

\* what the steps of proposeBookmarkMoves never touch
PropFrame == <<nodes, nextId, foc, approvedMoves, mig, log, wf, cacheVars,
              classifyVars, utilVars, moduleVars>>

\* what the steps of getBookmarkFolderStructure never touch
CacheFrame == <<nodes, nextId, foc, approvedMoves, mig, log, prop, wf, classifyVars,
               utilVars, moduleVars>>

----------------------------------------------------------------------------
(* Bounds of the model *)

MaxMoves == 3
MaxNodes == 2
MaxHalves == 3
MaxItems == 6
MaxFolders == 12
MaxBudget == 220
MaxSegments == 4
MaxRuns == 3
MaxCalls == 3
MaxPieces == 3
MaxRetries == 3
MaxSent == 4
MaxReviews == 3
MaxNotes == 4

----------------------------------------------------------------------------
(* String primitives on the pieces the model uses *)

\* String.prototype.toLowerCase on one piece
Lower(s) ==
    CASE s \in {"AI", "Ai", "ai"} -> "ai"
      [] s \in {"Tech", "tech"} -> "tech"
      [] s \in {"ML", "Ml", "ml"} -> "ml"
      [] s \in {"Bookmarks bar", "bookmarks bar"} -> "bookmarks bar"
      [] s \in {"Other bookmarks", "other bookmarks"} -> "other bookmarks"
      [] OTHER -> s

\* a normalisation that upper-cases the whole part
CapitalizeWhole(s) ==
    CASE s \in {"ai", "Ai"} -> "AI"
      [] s = "tech" -> "TECH"
      [] s = "Tech" -> "TECH"
      [] OTHER -> s

\* part.charAt(0).toUpperCase() + part.slice(1)
Capitalize(s) ==
    CASE s = "ai" -> "Ai"
      [] s = "tech" -> "Tech"
      [] s = "ml" -> "Ml"
      [] s = "bookmarks bar" -> "Bookmarks bar"
      [] s = "other bookmarks" -> "Other bookmarks"
      [] s = "(sharp s)eta" -> "SSeta"
      [] OTHER -> s

\* part.trim() === ''
IsBlank(s) == s \in {"", " "}

\* toLowerCase on a whole string
LowerStr(str) == [i \in 1..Len(str) |-> Lower(str[i])]

NotBlank(s) == ~IsBlank(s)

\* utils/bookmark.js parseCategoryPath: split, drop blank parts, capitalize
parseCategoryPath(path) ==
    LET kept == SelectSeq(path, NotBlank)
    IN  [i \in 1..Len(kept) |-> Capitalize(kept[i])]

\* Array.prototype.join('/'): the string whose pieces are the parts; the
\* empty string for no part
joinPath(parts) == IF parts = <<>> THEN <<"">> ELSE parts

\* utils/bookmark.js buildCategoryPath: drop blank parts, capitalize, join
buildCategoryPath(parts) ==
    LET kept == SelectSeq(parts, NotBlank)
    IN  joinPath([i \in 1..Len(kept) |-> Capitalize(kept[i])])

----------------------------------------------------------------------------
(* The bookmark store (chrome.bookmarks) *)

BarId == 1
NoId == -1

IsFolder(id) == id \in DOMAIN nodes /\ nodes[id].url = "none"

\* children of a folder, in the order of their ids
ChildIds(id) == {c \in DOMAIN nodes : c # id /\ nodes[c].parentId = id}

SetMin(S) == CHOOSE x \in S : \A y \in S : x <= y

\* a find that compares the titles as they are
FindChildFolderExact(parentId, part) ==
    LET hits == {c \in ChildIds(parentId) :
                    /\ nodes[c].url = "none"
                    /\ nodes[c].title = <<part>>}
    IN  IF hits = {} THEN NoId ELSE SetMin(hits)

\* bookmarks[0].children.find(node => node.title.toLowerCase() ===
\*   normalizedPart.toLowerCase() && !node.url): the first match, or NoId
FindChildFolder(parentId, part) ==
    LET hits == {c \in ChildIds(parentId) :
                    /\ nodes[c].url = "none"
                    /\ LowerStr(nodes[c].title) = <<Lower(part)>>}
    IN  IF hits = {} THEN NoId ELSE SetMin(hits)

----------------------------------------------------------------------------
(* utils/bookmark.js findOrCreateFolder, one await per step *)

\* executeMigration, the save handler, and a caller that awaits each call
\* before the next
Callers == {"mig", "save", "seq"}

FocIdle == [pc |-> "idle", pathParts |-> <<>>, k |-> 1, parentId |-> NoId]

\* the synchronous head of the call: parse the path, start at the bookmarks bar
FocCall(path) ==
    LET parts == parseCategoryPath(path)
    IN  [pc |-> IF Len(parts) = 0 THEN "done" ELSE "lookup",
         pathParts |-> parts, k |-> 1, parentId |-> BarId]

\* the loop moves on to the next part with the folder found or created
FocAdvance(f, id) ==
    [f EXCEPT !.parentId = id,
              !.k = f.k + 1,
              !.pc = IF f.k + 1 > Len(f.pathParts) THEN "done" ELSE "lookup"]

\* await chrome.bookmarks.getSubTree(parentId), then the find
FocLookup(c) ==
    /\ foc[c].pc = "lookup"
    /\ \E ok \in BOOLEAN :
         IF ~ok \/ ~IsFolder(foc[c].parentId)
         THEN foc' = [foc EXCEPT ![c].pc = "failed"]
         ELSE LET folder == FindChildFolder(foc[c].parentId,
                                            foc[c].pathParts[foc[c].k])
              IN  IF folder # NoId
                  THEN foc' = [foc EXCEPT ![c] = FocAdvance(foc[c], folder)]
                  ELSE foc' = [foc EXCEPT ![c].pc = "create"]
    /\ UNCHANGED <<nodes, nextId, approvedMoves, mig, log, MigFrame>>

\* await chrome.bookmarks.create({parentId, title: normalizedPart})
FocCreate(c) ==
    /\ foc[c].pc = "create"
    /\ \E ok \in BOOLEAN :
         IF ~ok \/ ~IsFolder(foc[c].parentId)
         THEN /\ foc' = [foc EXCEPT ![c].pc = "failed"]
              /\ UNCHANGED <<nodes, nextId>>
         ELSE /\ nodes' = [i \in DOMAIN nodes \cup {nextId} |->
                             IF i = nextId
                             THEN [parentId |-> foc[c].parentId,
                                   title |-> <<foc[c].pathParts[foc[c].k]>>,
                                   url |-> "none"]
                             ELSE nodes[i]]
              /\ nextId' = nextId + 1
              /\ foc' = [foc EXCEPT ![c] = FocAdvance(foc[c], nextId)]
    /\ UNCHANGED <<approvedMoves, mig, log, MigFrame>>

----------------------------------------------------------------------------
(* utils/migration.js executeMigration *)

MigIdle == [pc |-> "idle", i |-> 1, successful |-> 0, failed |-> 0, errors |-> <<>>]

\* a catch block that gives up on the rest of the batch
RecordFailureAbort(m, why) ==
    [m EXCEPT !.failed = m.failed + 1,
              !.errors = Append(m.errors, <<approvedMoves[m.i].bookmarkId, why>>),
              !.pc = "returned"]

\* catch (error) { results.failed++; results.errors.push(errorMessage) }
RecordFailure(m, why) ==
    [m EXCEPT !.failed = m.failed + 1,
              !.errors = Append(m.errors, <<approvedMoves[m.i].bookmarkId, why>>),
              !.i = m.i + 1,
              !.pc = "loop"]

\* results.successful++
RecordSuccess(m) ==
    [m EXCEPT !.successful = m.successful + 1, !.i = m.i + 1, !.pc = "loop"]

\* executeMigration(approvedMoves) is called
MigStart ==
    /\ mig.pc = "idle"
    /\ mig' = [MigIdle EXCEPT !.pc = "loop"]
    /\ UNCHANGED <<nodes, nextId, foc, approvedMoves, log, MigFrame>>

\* for (const move of approvedMoves): the loop head; the body starts with
\* the call of findOrCreateFolder(move.newSuggestedFolderPath)
MigLoop ==
    /\ mig.pc = "loop"
    /\ IF mig.i > Len(approvedMoves)
       THEN /\ mig' = [mig EXCEPT !.pc = "returned"]
            /\ UNCHANGED <<foc, log>>
       ELSE /\ foc["mig"].pc \in {"idle"}
            /\ foc' = [foc EXCEPT !["mig"] =
                          FocCall(approvedMoves[mig.i].newSuggestedFolderPath)]
            /\ mig' = [mig EXCEPT !.pc = "resolving"]
            /\ log' = Append(log, <<"resolve", mig.i>>)
    /\ UNCHANGED <<nodes, nextId, approvedMoves, MigFrame>>

\* a try block that moves the bookmark whatever findOrCreateFolder did
FolderResolvedAlways(f) == f.pc \in {"done", "failed"}

\* whether the try block goes on to chrome.bookmarks.move
FolderResolved(f) == f.pc = "done" /\ f.parentId # NoId

\* findOrCreateFolder has settled: on a rejection or a falsy id the catch
\* block runs, otherwise chrome.bookmarks.move is issued
MigResolved ==
    /\ mig.pc = "resolving"
    /\ foc["mig"].pc \in {"done", "failed"}
    /\ IF FolderResolved(foc["mig"])
       THEN /\ mig' = [mig EXCEPT !.pc = "moving"]
            /\ log' = Append(log, <<"move", mig.i>>)
       ELSE /\ mig' = RecordFailure(mig, "folder")
            /\ log' = Append(log, <<"failed", mig.i>>)
    /\ foc' = [foc EXCEPT !["mig"] = IF FolderResolved(foc["mig"]) THEN @ ELSE FocIdle]
    /\ UNCHANGED <<nodes, nextId, approvedMoves, MigFrame>>

\* await chrome.bookmarks.move(move.bookmarkId, {parentId: newFolderId})
MigMove ==
    /\ mig.pc = "moving"
    /\ LET id == approvedMoves[mig.i].bookmarkId
           target == foc["mig"].parentId
       IN  \E ok \in BOOLEAN :
             IF ok /\ id \in DOMAIN nodes /\ IsFolder(target)
             THEN /\ nodes' = [nodes EXCEPT ![id].parentId = target]
                  /\ mig' = RecordSuccess(mig)
                  /\ log' = Append(log, <<"moved", mig.i>>)
             ELSE /\ mig' = RecordFailure(mig, "move")
                  /\ log' = Append(log, <<"failed", mig.i>>)
                  /\ UNCHANGED nodes
    /\ foc' = [foc EXCEPT !["mig"] = FocIdle]
    /\ UNCHANGED <<nextId, approvedMoves, MigFrame>>

----------------------------------------------------------------------------
(* utils/migration.js proposeBookmarkMoves *)

\* GENERIC_TOP_LEVEL_FOLDERS, lower-cased; of its 47 names the ones that
\* occur among the pieces of the model
GENERIC_TOP_LEVEL_FOLDERS == {"ai", "tech"}

EmptyStr == <<"">>

\* a set of numbers as the sequence of its elements in increasing order
RECURSIVE SortedSeq(_)
SortedSeq(S) == IF S = {} THEN <<>> ELSE <<SetMin(S)>> \o SortedSeq(S \ {SetMin(S)})

\* node.children
Children(id) == SortedSeq(ChildIds(id))

\* getAllBookmarksRecursive(nodes, currentPath, allBookmarks): the entries it
\* pushes, in the order it pushes them
RECURSIVE getAllBookmarksRecursive(_, _)
getAllBookmarksRecursive(ids, currentPath) ==
    IF ids = <<>> THEN <<>>
    ELSE
      LET id == Head(ids)
          node == nodes[id]
          own == IF node.url # "none"
                 THEN <<[id |-> id, url |-> node.url,
                         folderPath |-> IF currentPath = EmptyStr
                                        THEN <<"N", "A">> ELSE currentPath]>>
                 ELSE <<>>
          pathSegment == IF id \in {0, 1, 2} \/ node.title = EmptyStr
                         THEN EmptyStr ELSE node.title
          nextPath == IF currentPath # EmptyStr
                      THEN (IF pathSegment # EmptyStr
                            THEN currentPath \o pathSegment ELSE currentPath)
                      ELSE pathSegment
          below == IF Children(id) # <<>>
                   THEN getAllBookmarksRecursive(Children(id), nextPath)
                   ELSE <<>>
      IN  own \o below \o getAllBookmarksRecursive(Tail(ids), currentPath)

\* the loop over bookmarkTree[0].children
RECURSIVE CollectFromRoots(_)
CollectFromRoots(rootChildren) ==
    IF rootChildren = <<>> THEN <<>>
    ELSE
      LET rc == Head(rootChildren)
          got == IF Children(rc) # <<>>
                 THEN getAllBookmarksRecursive(Children(rc), nodes[rc].title)
                 ELSE IF nodes[rc].url # "none"
                      THEN <<[id |-> rc, url |-> nodes[rc].url,
                              folderPath |-> nodes[rc].title]>>
                      ELSE <<>>
      IN  got \o CollectFromRoots(Tail(rootChildren))

\* folderPath.startsWith('Bookmarks bar/') ? folderPath.slice(14) : folderPath
normalizeFolderPath(folderPath) ==
    IF Len(folderPath) >= 2 /\ folderPath[1] = "Bookmarks bar"
    THEN Tail(folderPath) ELSE folderPath

\* the bookmark as the scan sees it, with normalizedFolderPath added
Normalized(b) ==
    [id |-> b.id, url |-> b.url, folderPath |-> b.folderPath,
     normalizedFolderPath |-> normalizeFolderPath(b.folderPath)]

\* a candidate test that forgets to look at the depth of the path
IsCandidateAnyDepth(b) ==
    LET folderPathParts == parseCategoryPath(b.normalizedFolderPath)
    IN  /\ Len(folderPathParts) >= 1
        /\ Lower(folderPathParts[1]) \in GENERIC_TOP_LEVEL_FOLDERS

\* folderPathParts.length === 1 &&
\*   GENERIC_TOP_LEVEL_FOLDERS.includes(folderNameLower)
IsCandidate(b) ==
    LET folderPathParts == parseCategoryPath(b.normalizedFolderPath)
    IN  /\ Len(folderPathParts) = 1
        /\ Lower(folderPathParts[1]) \in GENERIC_TOP_LEVEL_FOLDERS

\* an acceptance test that takes any suggestion that differs
IsBetterAnyDifferent(b, topSuggestion) ==
    IF LowerStr(topSuggestion) # LowerStr(b.normalizedFolderPath)
    THEN "yes" ELSE "no"

\* topSuggestion.toLowerCase() !== normalizedFolderPath.toLowerCase() &&
\*   (newPathParts.length > folderPathParts.length ||
\*    !GENERIC_TOP_LEVEL_FOLDERS.includes(newPathParts[0].toLowerCase()))
\* "yes", "no", or "throws" when newPathParts[0] is undefined where it is read
IsBetter(b, topSuggestion) ==
    LET newPathParts == parseCategoryPath(topSuggestion)
        folderPathParts == parseCategoryPath(b.normalizedFolderPath)
    IN  IF LowerStr(topSuggestion) = LowerStr(b.normalizedFolderPath) THEN "no"
        ELSE IF Len(newPathParts) > Len(folderPathParts) THEN "yes"
        ELSE IF Len(newPathParts) = 0 THEN "throws"
        ELSE IF Lower(newPathParts[1]) \notin GENERIC_TOP_LEVEL_FOLDERS
             THEN "yes" ELSE "no"

PropIdle ==
    [pc |-> "idle", hasProcess |-> TRUE, all |-> <<>>, k |-> 1,
     proposedMoves |-> <<>>, llmCalls |-> <<>>, skipped |-> {}]

\* what getFolderPathFromLLM may hand back for a candidate: a rejection, no
\* list, an empty list, or a list whose first entry has this folderPath
TopSuggestions ==
    {<<"AI">>, <<"Tech">>, <<"ML">>, <<"AI", "ML">>, <<"">>, <<"ai", "">>}

LLMOutcomes ==
    {[kind |-> k, top |-> EmptyStr] : k \in {"rejects", "null", "empty"}}
      \cup {[kind |-> "list", top |-> t] : t \in TopSuggestions}

\* proposeBookmarkMoves is called: getTree, the traversal, the debug print
PropStart ==
    /\ prop.pc = "idle"
    /\ \E treeOk \in BOOLEAN :
         IF ~treeOk \/ ~prop.hasProcess
         THEN prop' = [prop EXCEPT !.pc = "returned"]
         ELSE LET allBookmarks == CollectFromRoots(Children(0))
              IN  prop' = [prop EXCEPT
                             !.pc = "scan",
                             !.all = [i \in 1..Len(allBookmarks) |->
                                        Normalized(allBookmarks[i])]]
    /\ UNCHANGED PropFrame

\* one round of for (const bookmark of normalizedBookmarks), up to the await
PropScan ==
    /\ prop.pc = "scan"
    /\ IF prop.k > Len(prop.all)
       THEN prop' = [prop EXCEPT !.pc = "returned"]
       ELSE LET bookmark == prop.all[prop.k]
            IN  IF ~IsCandidate(bookmark)
                THEN prop' = [prop EXCEPT !.k = prop.k + 1]
                ELSE IF bookmark.url = "bad"
                     \* new URL(bookmark.url) throws outside the inner try
                     THEN prop' = [prop EXCEPT !.pc = "returned"]
                     ELSE prop' = [prop EXCEPT
                                     !.pc = "classifying",
                                     !.llmCalls = Append(prop.llmCalls, bookmark.id)]
    /\ UNCHANGED PropFrame

\* await getFolderPathFromLLM(metadata) settles
PropClassified ==
    /\ prop.pc = "classifying"
    /\ \E outcome \in LLMOutcomes :
         LET bookmark == prop.all[prop.k]
             skip == [prop EXCEPT !.pc = "scan", !.k = prop.k + 1,
                                  !.skipped = prop.skipped \cup
                                     (IF outcome.kind = "rejects" THEN {prop.k} ELSE {})]
         IN  IF outcome.kind # "list"
             THEN prop' = skip
             ELSE IF IsBetter(bookmark, outcome.top) = "yes"
                  THEN prop' = [prop EXCEPT
                          !.pc = "scan", !.k = prop.k + 1,
                          !.proposedMoves = Append(prop.proposedMoves,
                              [bookmarkId |-> bookmark.id,
                               originalFolderPath |-> bookmark.normalizedFolderPath,
                               newSuggestedFolderPath |-> outcome.top])]
                  ELSE prop' = skip
    /\ UNCHANGED PropFrame

----------------------------------------------------------------------------
(* utils/bookmark.js getBookmarkFolderStructure and its cache *)

\* CONFIG_SCHEMA.storage.cache.ttl, in milliseconds
TTL == 3600000

\* CACHE_CONFIG.ttlMinutes
ttlMinutes == TTL \div 60000

HalfTTL == TTL \div 2

NoEntry == [present |-> FALSE, data |-> <<>>, expiry |-> 0]

\* !node.title || node.title.trim() === ''
IsBlankTitle(title) == Len(title) = 1 /\ IsBlank(title[1])

\* isRootContainer(title); of its six names the ones the model uses
isRootContainer(title) ==
    Len(title) = 1 /\ Lower(title[1]) \in {"bookmarks bar", "other bookmarks"}

\* traverseNodes(nodes, currentPath, insideRootContainer): the paths it
\* pushes to folderPaths, in the order it pushes them
RECURSIVE traverseNodes(_, _, _)
traverseNodes(ids, currentPath, insideRootContainer) ==
    IF ids = <<>> THEN <<>>
    ELSE
      LET id == Head(ids)
          node == nodes[id]
          rest == traverseNodes(Tail(ids), currentPath, insideRootContainer)
          newPath == IF currentPath # EmptyStr
                     THEN currentPath \o node.title ELSE node.title
      IN  IF node.url # "none" THEN rest
          ELSE IF id = 0 \/ IsBlankTitle(node.title)
          THEN traverseNodes(Children(id), currentPath, insideRootContainer) \o rest
          ELSE IF isRootContainer(node.title) /\ currentPath = EmptyStr
          THEN traverseNodes(Children(id), EmptyStr, TRUE) \o rest
          ELSE IF insideRootContainer /\ currentPath = EmptyStr
          THEN <<node.title>>
                 \o traverseNodes(Children(id), node.title, insideRootContainer)
                 \o rest
          ELSE <<newPath>>
                 \o traverseNodes(Children(id), newPath, insideRootContainer)
                 \o rest

\* fetchBookmarkFolderStructure, given that getTree answered
fetchBookmarkFolderStructure == traverseNodes(<<0>>, EmptyStr, FALSE)

\* a cache read that honours the expiry even when asked to skip the check
getCachedIgnoringSkip(readOk, skipExpiryCheck) ==
    IF ~readOk \/ ~cache.present THEN [hit |-> FALSE, data |-> <<>>]
    ELSE IF cache.expiry = 0 \/ now > cache.expiry
         THEN [hit |-> FALSE, data |-> <<>>]
         ELSE [hit |-> TRUE, data |-> cache.data]

\* a cache read that takes a stored list whatever its expiry
getCachedNeverExpires(readOk, skipExpiryCheck) ==
    IF ~readOk \/ ~cache.present THEN [hit |-> FALSE, data |-> <<>>]
    ELSE [hit |-> TRUE, data |-> cache.data]

\* a cache read for which the entry is already stale at its expiry instant
getCachedExpiresEarly(readOk, skipExpiryCheck) ==
    IF ~readOk \/ ~cache.present THEN [hit |-> FALSE, data |-> <<>>]
    ELSE IF ~skipExpiryCheck /\ (cache.expiry = 0 \/ now >= cache.expiry)
         THEN [hit |-> FALSE, data |-> <<>>]
         ELSE [hit |-> TRUE, data |-> cache.data]

\* getCachedFolderStructure(skipExpiryCheck): null (no hit) when the storage
\* read fails, when nothing is stored, or when the entry has expired
getCachedFolderStructure(readOk, skipExpiryCheck) ==
    IF ~readOk \/ ~cache.present THEN [hit |-> FALSE, data |-> <<>>]
    ELSE IF ~skipExpiryCheck /\ (cache.expiry = 0 \/ now > cache.expiry)
         THEN [hit |-> FALSE, data |-> <<>>]
         ELSE [hit |-> TRUE, data |-> cache.data]

GsIdle ==
    [pc |-> "idle", forceRefresh |-> FALSE, readOk |-> FALSE, inWindow |-> FALSE,
     folderPaths |-> <<>>, idsAtCall |-> 0, fallbackReadOk |-> FALSE]

\* what is kept of the call before the latest one: whether it was made
\* without forceRefresh, fetched the tree and stored the list, and the list
Summary(rec) ==
    [cached |-> ~rec.forceRefresh /\ rec.how = "fetched" /\ rec.wrote,
     result |-> rec.result]

\* the call returns: it becomes the latest of the two finished calls kept
Finished(g, result, how, wrote, snapshot) ==
    LET rec == [forceRefresh |-> g.forceRefresh, readOk |-> g.readOk,
                inWindow |-> g.inWindow, how |-> how,
                result |-> result, wrote |-> wrote,
                wroteAt |-> IF wrote THEN now ELSE 0,
                idsAtCall |-> g.idsAtCall,
                fallbackReadOk |-> g.fallbackReadOk, fallbackFrom |-> snapshot]
    IN  /\ calls' = IF calls = <<>> THEN <<rec>>
                    ELSE <<Summary(calls[Len(calls)]), rec>>
        /\ gs' = GsIdle

\* the cache is read no later than TTL after the previous call stored it
InWindow ==
    /\ calls # <<>>
    /\ calls[Len(calls)].wrote
    /\ now - calls[Len(calls)].wroteAt <= TTL

\* getBookmarkFolderStructure(forceRefresh) is called
GsStart(forceRefresh) ==
    gs' = [GsIdle EXCEPT !.pc = IF forceRefresh THEN "fetch" ELSE "read",
                         !.forceRefresh = forceRefresh,
                         !.idsAtCall = nextId]

GsCall ==
    /\ gs.pc = "idle"
    /\ \E forceRefresh \in BOOLEAN : GsStart(forceRefresh)
    /\ UNCHANGED <<cache, now, calls, CacheFrame>>

\* await getCachedFolderStructure(): a hit is returned at once
GsRead ==
    /\ gs.pc = "read"
    /\ \E readOk \in BOOLEAN :
         LET cachedData == getCachedFolderStructure(readOk, FALSE)
         IN  IF cachedData.hit
             THEN /\ Finished([gs EXCEPT !.readOk = readOk, !.inWindow = InWindow],
                              cachedData.data, "hit", FALSE, NoEntry)
                  /\ UNCHANGED cache
             ELSE /\ gs' = [gs EXCEPT !.pc = "fetch", !.readOk = readOk,
                                        !.inWindow = InWindow]
                  /\ UNCHANGED <<cache, calls>>
    /\ UNCHANGED <<now, CacheFrame>>

\* await fetchBookmarkFolderStructure(): chrome.bookmarks.getTree answers or
\* reports lastError
GsFetch ==
    /\ gs.pc = "fetch"
    /\ \E treeOk \in BOOLEAN :
         IF treeOk
         THEN gs' = [gs EXCEPT !.pc = "write",
                               !.folderPaths = fetchBookmarkFolderStructure]
         ELSE gs' = [gs EXCEPT !.pc = "fallback"]
    /\ UNCHANGED <<cache, now, calls, CacheFrame>>

\* await setCachedFolderStructure(folderPaths); a failed write is swallowed
GsWrite ==
    /\ gs.pc = "write"
    /\ \E writeOk \in BOOLEAN :
         /\ cache' = IF writeOk
                     THEN [present |-> TRUE, data |-> gs.folderPaths,
                           expiry |-> now + (ttlMinutes * 60 * 1000)]
                     ELSE cache
         /\ Finished(gs, gs.folderPaths, "fetched", writeOk, NoEntry)
    /\ UNCHANGED <<now, CacheFrame>>

\* the catch block: getCachedFolderStructure(true), else the empty list
GsFallback ==
    /\ gs.pc = "fallback"
    /\ \E readOk \in BOOLEAN :
         LET cachedData == getCachedFolderStructure(readOk, TRUE)
             g == [gs EXCEPT !.fallbackReadOk = readOk]
         IN  IF cachedData.hit /\ Len(cachedData.data) > 0
             THEN Finished(g, cachedData.data, "fallback", FALSE, cache)
             ELSE Finished(g, <<>>, "fallback", FALSE, cache)
    /\ UNCHANGED <<cache, now, CacheFrame>>

\* time passes
Tick ==
    /\ now + HalfTTL <= MaxHalves * HalfTTL
    /\ now' = now + HalfTTL
    /\ UNCHANGED <<cache, gs, calls, CacheFrame>>

----------------------------------------------------------------------------
(* background.js: the saveBookmarkWithFolder message handler *)

SavePaths == {<<"Tech", "ai">>}

\* the message arrives: findOrCreateFolder(folderPath) is called
SaveStart ==
    /\ foc["save"].pc = "idle"
    /\ \E folderPath \in SavePaths :
         foc' = [foc EXCEPT !["save"] = FocCall(folderPath)]
    /\ UNCHANGED <<nodes, nextId, approvedMoves, mig, log, MigFrame>>

\* utils/bookmark.js createBookmark, then sendResponse; after a rejection of
\* findOrCreateFolder only the error response is sent
SaveFinish ==
    /\ foc["save"].pc \in {"done", "failed"}
    /\ \E ok \in BOOLEAN :
         LET folderId == foc["save"].parentId
             existing == {c \in ChildIds(folderId) : nodes[c].url = "ok"}
         IN  IF foc["save"].pc = "done" /\ ok /\ IsFolder(folderId) /\ existing = {}
             THEN /\ nodes' = [i \in DOMAIN nodes \cup {nextId} |->
                                 IF i = nextId
                                 THEN [parentId |-> folderId, title |-> <<"page">>,
                                       url |-> "ok"]
                                 ELSE nodes[i]]
                  /\ nextId' = nextId + 1
             ELSE UNCHANGED <<nodes, nextId>>
    /\ foc' = [foc EXCEPT !["save"] = FocIdle]
    /\ UNCHANGED <<approvedMoves, mig, log, MigFrame>>

----------------------------------------------------------------------------
(* Backend response texts                                                  *)
(*                                                                         *)
(* A response text is the sequence of its lexical pieces: "[", "]", ",",   *)
(* " " (a run of white space), "prose" (a run of characters with no        *)
(* bracket in it) and one piece per JSON object literal.                   *)

ItemA == "{folderPath:Tech/AI}"
ItemB == "{folderPath:../News}"
ItemE == "{folderPath:}"

Items == {ItemA, ItemB, ItemE}

\* the object a literal denotes
ItemValue(tok) ==
    CASE tok = ItemA -> [folderPath |-> <<"Tech", "AI">>]
      [] tok = ItemB -> [folderPath |-> <<"..", "News">>]
      [] OTHER       -> [folderPath |-> EmptyStr]

\* String.prototype.trim
RECURSIVE trim(_)
trim(t) ==
    IF t = <<>> THEN t
    ELSE IF Head(t) = " " THEN trim(Tail(t))
    ELSE IF t[Len(t)] = " " THEN trim(SubSeq(t, 1, Len(t) - 1))
    ELSE t

\* String.prototype.indexOf and lastIndexOf, 1-based, 0 for "not found"
indexOf(t, tok) ==
    IF \E k \in 1..Len(t) : t[k] = tok
    THEN SetMin({k \in 1..Len(t) : t[k] = tok}) ELSE 0

lastIndexOf(t, tok) ==
    IF \E k \in 1..Len(t) : t[k] = tok
    THEN CHOOSE k \in 1..Len(t) : t[k] = tok /\ \A j \in (k+1)..Len(t) : t[j] # tok
    ELSE 0

NotSpace(tok) == tok # " "

\* JSON.parse on the texts of the model: one object literal, or a bracketed
\* comma-separated list of object literals (white space between the pieces
\* is skipped); anything else is a SyntaxError
JSONparse(t) ==
    LET u == SelectSeq(t, NotSpace)
        inner == SubSeq(u, 2, Len(u) - 1)
    IN  IF Len(u) = 1 /\ u[1] \in Items
        THEN [ok |-> TRUE, isArray |-> FALSE, value |-> <<ItemValue(u[1])>>]
        ELSE IF /\ Len(u) >= 2
                /\ u[1] = "["
                /\ u[Len(u)] = "]"
                /\ (inner = <<>> \/ Len(inner) % 2 = 1)
                /\ \A k \in 1..Len(inner) :
                     IF k % 2 = 1 THEN inner[k] \in Items ELSE inner[k] = ","
        THEN [ok |-> TRUE, isArray |-> TRUE,
              value |-> [k \in 1..((Len(inner) + 1) \div 2) |-> ItemValue(inner[2 * k - 1])]]
        ELSE [ok |-> FALSE, isArray |-> FALSE, value |-> <<>>]

\* the text of a JSON array of the given object literals
RECURSIVE Commas(_)
Commas(items) ==
    IF Len(items) <= 1 THEN items
    ELSE <<Head(items), ",">> \o Commas(Tail(items))

ArrayText(items) == <<"[">> \o Commas(items) \o <<"]">>

\* the response texts a backend may send: an array of up to MaxItems
\* objects, alone or wrapped in white space and prose, and texts that hold
\* no array, a truncated array, a bare object, or two arrays
Texts ==
    UNION {
      {pre \o ArrayText(items) \o post :
          pre \in {<<>>, <<" ">>, <<"prose">>}, post \in {<<>>, <<"prose">>}}
      : items \in UNION {[1..n -> Items] : n \in 0..MaxItems}}
    \cup {<<>>, <<" ">>, <<"prose">>, <<"[", ItemA>>, <<ItemA>>, <<ItemA, "]">>,
          <<"]", "prose", "[">>,
          <<"[", ItemA, "]", "prose", "[", ItemB, "]">>}

----------------------------------------------------------------------------
(* utils/providers: AIProvider.getFolderSuggestions and its adapters *)

\* extractJsonArray(rawResponse): the parsed array, or an Error
extractJsonArray(rawResponse) ==
    LET jsonText == trim(rawResponse)
        firstBracket == indexOf(jsonText, "[")
        lastBracket == lastIndexOf(jsonText, "]")
        cut == IF (jsonText = <<>> \/ Head(jsonText) # "[")
                  /\ firstBracket # 0 /\ lastBracket # 0
                  /\ lastBracket > firstBracket
               THEN SubSeq(jsonText, firstBracket, lastBracket)
               ELSE jsonText
        parsed == JSONparse(cut)
    IN  IF parsed.ok /\ parsed.isArray
        THEN [threw |-> FALSE, value |-> parsed.value]
        ELSE [threw |-> TRUE, value |-> <<>>]

Providers == {"gemini", "lmstudio", "ollama"}

\* the adapters' parseResponse(data): the content of the backend's answer is
\* missing or empty, or it is trimmed and handed to extractJsonArray; every
\* failure becomes an APIError
parseResponse(hasContent, content) ==
    LET rawResponse == trim(content)
        extracted == extractJsonArray(rawResponse)
    IN  IF ~hasContent \/ content = <<>> \/ extracted.threw
        THEN [threw |-> TRUE, error |-> "APIError", value |-> <<>>]
        ELSE [threw |-> FALSE, error |-> "none", value |-> extracted.value]

NoError == [type |-> "none", provider |-> "none", statusCode |-> 0]

\* what can become of the adapter's fetch: the backend is unreachable (fetch
\* rejects with a TypeError whose message may or may not mention 'fetch'),
\* it answers with an error status, or it answers with success; the body it
\* sends is valid JSON or not
RequestOutcomes ==
    {[kind |-> "unreachable", status |-> 0, bodyIsJson |-> FALSE, mentionsFetch |-> m] :
        m \in BOOLEAN}
    \cup {[kind |-> "status", status |-> st, bodyIsJson |-> j, mentionsFetch |-> FALSE] :
        st \in {404, 500}, j \in BOOLEAN}
    \cup {[kind |-> "answer", status |-> 200, bodyIsJson |-> j, mentionsFetch |-> FALSE] :
        j \in BOOLEAN}

NoOutcome == [kind |-> "none", status |-> 0, bodyIsJson |-> FALSE, mentionsFetch |-> FALSE]

\* makeRequest(prompt) of the three adapters: what it raises, if anything.
\* LM Studio and Ollama read the error body inside a try and turn a fetch
\* TypeError into a NetworkError; Gemini does neither
makeRequest(provider, outcome) ==
    CASE outcome.kind = "unreachable" ->
           IF provider # "gemini" /\ outcome.mentionsFetch
           THEN [type |-> "NetworkError", provider |-> "none", statusCode |-> 0]
           ELSE [type |-> "TypeError", provider |-> "none", statusCode |-> 0]
      [] outcome.kind = "status" ->
           IF provider = "gemini" /\ ~outcome.bodyIsJson
           THEN [type |-> "SyntaxError", provider |-> "none", statusCode |-> 0]
           ELSE [type |-> "APIError", provider |-> provider,
                 statusCode |-> outcome.status]
      [] OTHER ->
           IF outcome.bodyIsJson THEN NoError
           ELSE [type |-> "SyntaxError", provider |-> "none", statusCode |-> 0]

\* this.name of the adapters
ThisName(provider) ==
    CASE provider = "gemini" -> "Gemini"
      [] provider = "lmstudio" -> "LMStudio"
      [] OTHER -> "Ollama"

\* a catch block that rethrows whatever it caught
RethrownAsCaught(provider, error) == error

\* the catch block of getFolderSuggestions: APIError and NetworkError pass,
\* everything else is wrapped in an APIError named after the provider
Rethrown(provider, error) ==
    IF error.type \in {"APIError", "NetworkError"} THEN error
    ELSE [type |-> "APIError", provider |-> ThisName(provider), statusCode |-> 0]

LlmIdle ==
    [pc |-> "idle", provider |-> "none", rawResponse |-> <<>>, error |-> "none",
     suggestions |-> <<>>, outcome |-> NoOutcome, requestRaised |-> NoError,
     parseRaised |-> NoError, raised |-> NoError, steps |-> <<>>]

\* getFolderPathFromLLM(metadata, apiKey, forceRefresh) is called: it first
\* awaits getBookmarkFolderStructure(forceRefresh)
LlmCall ==
    /\ llm.pc = "idle"
    /\ gs.pc = "idle"
    /\ \E forceRefresh \in BOOLEAN : GsStart(forceRefresh)
    /\ llm' = [llm EXCEPT !.pc = "folders"]
    /\ UNCHANGED <<cache, now, calls, nodes, nextId, foc, approvedMoves, mig, log, wf,
                   prop, ai, folderCache, utilVars, moduleVars>>

\* the folder list arrives (the call cannot reject); the prompt is built and
\* AIProviderFactory.createCurrentProvider is awaited
LlmPrompt ==
    /\ llm.pc = "folders"
    /\ gs.pc = "idle"
    /\ llm' = [llm EXCEPT !.pc = "provider"]
    /\ UNCHANGED <<cacheVars, nodes, nextId, foc, approvedMoves, mig, log, wf,
                   prop, ai, folderCache, utilVars, moduleVars>>

\* the provider is created; getFolderSuggestions runs validateConfig (only
\* Gemini's can fail, on a missing API key) and issues makeRequest
LlmSend ==
    /\ llm.pc = "provider"
    /\ \E provider \in Providers, hasKey \in BOOLEAN :
         IF provider = "gemini" /\ ~hasKey
         THEN llm' = [llm EXCEPT !.pc = "threw", !.provider = provider,
                                 !.error = "ConfigurationError",
                                 !.raised = [type |-> "ConfigurationError",
                                             provider |-> "none", statusCode |-> 0],
                                 !.steps = <<"validateConfig">>]
         ELSE llm' = [llm EXCEPT !.pc = "request", !.provider = provider,
                                 !.steps = <<"validateConfig", "makeRequest">>]
    /\ UNCHANGED <<cacheVars, nodes, nextId, foc, approvedMoves, mig, log, wf,
                   prop, ai, folderCache, utilVars, moduleVars>>

\* the backend answers or the request fails: makeRequest raises, or
\* parseResponse runs on the answer (on a body that is the JSON null it
\* raises a TypeError), and what it returns is returned unchanged by
\* getFolderSuggestions and by getFolderPathFromLLM
LlmResponse ==
    /\ llm.pc = "request"
    /\ \E outcome \in RequestOutcomes :
         LET requestRaised == makeRequest(llm.provider, outcome)
         IN  IF requestRaised # NoError
             THEN llm' = [llm EXCEPT !.pc = "threw", !.outcome = outcome,
                            !.requestRaised = requestRaised,
                            !.raised = Rethrown(llm.provider, requestRaised),
                            !.error = Rethrown(llm.provider, requestRaised).type]
             ELSE \E dataIsNull \in BOOLEAN :
                    IF dataIsNull
                    THEN LET parseRaised == [type |-> "TypeError", provider |-> "none",
                                             statusCode |-> 0]
                         IN  llm' = [llm EXCEPT
                                       !.pc = "threw", !.outcome = outcome,
                                       !.steps = Append(llm.steps, "parseResponse"),
                                       !.parseRaised = parseRaised,
                                       !.raised = Rethrown(llm.provider, parseRaised),
                                       !.error = Rethrown(llm.provider, parseRaised).type]
                    ELSE \E hasContent \in BOOLEAN, content \in Texts :
                      LET suggestions == parseResponse(hasContent, content)
                          parseRaised == [type |-> suggestions.error,
                                          provider |-> llm.provider, statusCode |-> 0]
                      IN  IF suggestions.threw
                          THEN llm' = [llm EXCEPT
                                         !.pc = "threw", !.outcome = outcome,
                                         !.steps = Append(llm.steps, "parseResponse"),
                                         !.parseRaised = parseRaised,
                                         !.raised = Rethrown(llm.provider, parseRaised),
                                         !.error = Rethrown(llm.provider, parseRaised).type]
                          ELSE llm' = [llm EXCEPT
                                         !.pc = "returned", !.outcome = outcome,
                                         !.steps = Append(llm.steps, "parseResponse"),
                                         !.rawResponse = content,
                                         !.suggestions = suggestions.value]
    /\ UNCHANGED <<cacheVars, nodes, nextId, foc, approvedMoves, mig, log, wf,
                   prop, ai, folderCache, utilVars, moduleVars>>

----------------------------------------------------------------------------
(* ai.js classifyBookmark, with lib/bookmarks.js getFolderStructure and    *)
(* SecuritySanitizer                                                       *)

\* the characters sanitizeFolderPath deletes from a segment: the forbidden
\* characters and every ".."
Clean(piece) == IF piece = ".." THEN "" ELSE piece

\* part.trim().substring(0, 50); every segment of the model is shorter
Trim50(piece) == IF piece = " " THEN "" ELSE piece

KeptPart(piece) == piece # "" /\ piece # ".git"

FirstN(q, n) == SubSeq(q, 1, IF Len(q) < n THEN Len(q) ELSE n)

\* SecuritySanitizer.sanitizeFolderPath(path), for a string
sanitizeFolderPath(path) ==
    LET parts == [k \in 1..Len(path) |-> Trim50(Clean(path[k]))]
        kept == FirstN(SelectSeq(parts, KeptPart), 3)
    IN  IF kept = <<>> THEN <<"Uncategorized">> ELSE kept

\* the test validateAIResponse and parseResponse apply to one item; every
\* folderPath of the model is a string shorter than 200 characters
ValidItem(item) == item.folderPath # EmptyStr

\* SecuritySanitizer.validateAIResponse(response), for an array
validateAIResponse(response) == \A k \in 1..Len(response) : ValidItem(response[k])

Sentinel == <<[folderPath |-> <<"Uncategorized">>]>>

\* response.match(/\[[\s\S]*\]/): from the first "[" to the last "]" after it
MatchArray(response) ==
    LET first == indexOf(response, "[")
        last == lastIndexOf(response, "]")
    IN  IF first # 0 /\ last > first
        THEN [found |-> TRUE, text |-> SubSeq(response, first, last)]
        ELSE [found |-> FALSE, text |-> <<>>]

\* ai.js parseResponse(response)
aiParseResponse(response) ==
    LET match == MatchArray(response)
        parsed == JSONparse(match.text)
        valid == SelectSeq(parsed.value, ValidItem)
        mapped == [k \in 1..Len(valid) |->
                     [folderPath |-> sanitizeFolderPath(valid[k].folderPath)]]
    IN  IF ~match.found \/ ~parsed.ok \/ ~parsed.isArray
           \/ ~validateAIResponse(parsed.value)
        THEN Sentinel
        ELSE FirstN(mapped, 5)

\* lib/bookmarks.js isRootContainer, by exact title
IsRootTitle(title) ==
    title \in {<<"Bookmarks Bar">>, <<"Other Bookmarks">>, <<"Mobile Bookmarks">>,
               <<"Favorites Bar">>}

\* lib/bookmarks.js traverse(node, path), over a list of sibling nodes
RECURSIVE traverse(_, _)
traverse(ids, path) ==
    IF ids = <<>> THEN <<>>
    ELSE
      LET id == Head(ids)
          node == nodes[id]
          rest == traverse(Tail(ids), path)
          currentPath == IF path # EmptyStr THEN path \o node.title ELSE node.title
      IN  IF node.url = "none" /\ node.title # EmptyStr
          THEN IF IsRootTitle(node.title)
               THEN traverse(Children(id), EmptyStr) \o rest
               ELSE <<currentPath>> \o traverse(Children(id), currentPath) \o rest
          ELSE traverse(Children(id), path) \o rest

NoFolderCache == [set |-> FALSE, folders |-> <<>>, cacheTime |-> 0]

AiIdle ==
    [pc |-> "idle", calledAt |-> 0, rawResponse |-> <<>>, suggestions |-> <<>>]

\* classifyBookmark(metadata) is called: getFolderStructure resets its cache
\* and asks for the bookmark tree
AiCall ==
    /\ ai.pc = "idle"
    /\ ai' = [ai EXCEPT !.pc = "tree", !.calledAt = now]
    /\ folderCache' = NoFolderCache
    /\ UNCHANGED <<cacheVars, nodes, nextId, foc, approvedMoves, mig, log, wf, prop, llm,
                   utilVars, moduleVars>>

\* the tree arrives: the folder list is built and cached, the prompt is built
\* and sent to LM Studio; a failed getTree rejects classifyBookmark
AiTree ==
    /\ ai.pc = "tree"
    /\ \E treeOk \in BOOLEAN :
         IF treeOk
         THEN /\ folderCache' = [set |-> TRUE, folders |-> traverse(<<0>>, EmptyStr),
                                 cacheTime |-> ai.calledAt]
              /\ ai' = [ai EXCEPT !.pc = "request"]
         ELSE /\ ai' = [ai EXCEPT !.pc = "threw"]
              /\ UNCHANGED folderCache
    /\ UNCHANGED <<cacheVars, nodes, nextId, foc, approvedMoves, mig, log, wf, prop, llm,
                   utilVars, moduleVars>>

\* LM Studio answers with a text, which parseResponse turns into the
\* suggestions, or the request fails and classifyBookmark rejects
AiResponse ==
    /\ ai.pc = "request"
    /\ \E answered \in BOOLEAN :
         IF answered
         THEN \E response \in Texts :
                ai' = [ai EXCEPT !.pc = "returned", !.rawResponse = response,
                                 !.suggestions = aiParseResponse(response)]
         ELSE ai' = [ai EXCEPT !.pc = "threw"]
    /\ UNCHANGED <<cacheVars, nodes, nextId, foc, approvedMoves, mig, log, wf, prop, llm,
                   folderCache, utilVars, moduleVars>>

----------------------------------------------------------------------------
(* utils/providers/token-manager.js TokenManager *)

\* String.prototype.length of the pieces that occur in folder paths
PieceLen(piece) ==
    CASE piece \in {"Ai", "ML", "AI"} -> 2
      [] piece \in {"tech", "news", "Tech", "News"} -> 4
      [] OTHER -> 0

RECURSIVE SumLen(_)
SumLen(path) == IF path = <<>> THEN 0 ELSE PieceLen(Head(path)) + SumLen(Tail(path))

\* path.length: the pieces and the '/' between them
PathLen(path) == SumLen(path) + (Len(path) - 1)

\* the folder paths of the model, and their order under localeCompare
FolderKinds == {<<"tech">>, <<"tech", "Ai">>, <<"news", "ML">>, <<"news", "Ai", "ML">>}

PathRank(path) ==
    CASE path = <<"news", "Ai", "ML">> -> 1
      [] path = <<"news", "ML">> -> 2
      [] path = <<"tech">> -> 3
      [] OTHER -> 4

\* the comparator of prioritizeFolders: depth first, then localeCompare
SortsBefore(a, b) ==
    \/ Len(a) < Len(b)
    \/ Len(a) = Len(b) /\ PathRank(a) < PathRank(b)

\* Array.prototype.sort with that comparator (stable)
RECURSIVE InsertSorted(_, _)
InsertSorted(x, sorted) ==
    IF sorted = <<>> THEN <<x>>
    ELSE IF SortsBefore(x, Head(sorted)) THEN <<x>> \o sorted
    ELSE <<Head(sorted)>> \o InsertSorted(x, Tail(sorted))

RECURSIVE SortSubs(_)
SortSubs(q) ==
    IF q = <<>> THEN <<>>
    ELSE InsertSorted(q[Len(q)], SortSubs(SubSeq(q, 1, Len(q) - 1)))

IsRootFolder(f) == Len(f) = 1

IsSubFolder(f) == Len(f) > 1

\* estimateTokenCount(text) = Math.ceil(text.length / 3.5), from text.length
estimateTokenCount(length) == (2 * length + 6) \div 7

\* lengths of the fixed text before and after the folder lines
ContextHeadLen == 212

ContextTailLen == 303

RECURSIVE LinesLen(_)
LinesLen(folders) ==
    IF folders = <<>> THEN 0
    ELSE 2 + PathLen(Head(folders)) + LinesLen(Tail(folders))

\* buildContextSection(folders).length
buildContextSectionLen(folders) ==
    IF folders = <<>> THEN 0
    ELSE ContextHeadLen + LinesLen(folders) + (Len(folders) - 1) + ContextTailLen

\* prioritizeFolders(folders, maxFolders)
prioritizeFolders(folders, maxFolders) ==
    IF folders = <<>> THEN <<>>
    ELSE IF Len(folders) <= maxFolders THEN folders
    ELSE LET rootFolders == SelectSeq(folders, IsRootFolder)
             subFolders == SelectSeq(folders, IsSubFolder)
             remainingSlots == maxFolders - Len(rootFolders)
         IN  IF remainingSlots > 0
             THEN rootFolders \o FirstN(SortSubs(subFolders), remainingSlots)
             ELSE rootFolders

maxFolderLimits == <<100, 75, 50, 25, 15, 10>>

\* a budget test that lets everything pass
FitsAlways(tokens, maxContextTokens) == TRUE

\* fullTokens <= maxContextTokens, testTokens <= maxContextTokens
Fits(tokens, maxContextTokens) == tokens <= maxContextTokens

\* the loop over maxFolderLimits, from position k: the first ceiling whose
\* prompt fits, or the fallback without context
RECURSIVE tryLimits(_, _, _, _)
tryLimits(k, folders, baseLen, maxContextTokens) ==
    IF k > Len(maxFolderLimits)
    THEN [folders |-> <<>>, includedCount |-> 0,
          tokenCount |-> estimateTokenCount(baseLen), limit |-> 0]
    ELSE LET optimizedFolders == prioritizeFolders(folders, maxFolderLimits[k])
             testTokens == estimateTokenCount(baseLen + buildContextSectionLen(optimizedFolders))
         IN  IF Fits(testTokens, maxContextTokens)
             THEN [folders |-> optimizedFolders, includedCount |-> Len(optimizedFolders),
                   tokenCount |-> testTokens, limit |-> maxFolderLimits[k]]
             ELSE tryLimits(k + 1, folders, baseLen, maxContextTokens)

\* optimizeContext(folders, basePrompt, maxContextTokens), for a list of
\* folders and the length of basePrompt
optimizeContext(folders, baseLen, maxContextTokens) ==
    IF folders = <<>>
    THEN [folders |-> <<>>, originalCount |-> 0, includedCount |-> 0,
          optimizationApplied |-> FALSE, tokenCount |-> 0, limit |-> 0]
    ELSE LET fullTokens == estimateTokenCount(baseLen + buildContextSectionLen(folders))
             opt == tryLimits(1, folders, baseLen, maxContextTokens)
         IN  IF Fits(fullTokens, maxContextTokens)
             THEN [folders |-> folders, originalCount |-> Len(folders),
                   includedCount |-> Len(folders), optimizationApplied |-> FALSE,
                   tokenCount |-> fullTokens, limit |-> 0]
             ELSE [folders |-> opt.folders, originalCount |-> Len(folders),
                   includedCount |-> opt.includedCount, optimizationApplied |-> TRUE,
                   tokenCount |-> opt.tokenCount, limit |-> opt.limit]

TmIdle ==
    [pc |-> "idle", folders |-> <<>>, baseLen |-> 0, maxContextTokens |-> 0,
     result |-> optimizeContext(<<>>, 0, 0)]

\* TokenManager.optimizeContext is called and returns
TmOptimize ==
    /\ tm.pc = "idle"
    /\ tm' = [tm EXCEPT !.pc = "done",
                        !.result = optimizeContext(tm.folders, tm.baseLen,
                                                   tm.maxContextTokens)]
    /\ UNCHANGED <<nodes, nextId, foc, approvedMoves, mig, log, wf, prop, cacheVars,
                   classifyVars, sf, sp, ex, moduleVars>>


----------------------------------------------------------------------------
(* SecuritySanitizer.sanitizeFolderPath on texts                           *)
(*                                                                         *)
(* A text is the sequence of its runs: a run <<c, n>> is the character c   *)
(* repeated n times, "a" standing for any letter and ":" for any of the    *)
(* forbidden characters; the literal 'Uncategorized' is one run of a unit  *)
(* of that name.                                                           *)

Run(c, n) == <<c, n>>

\* adjacent runs of one character are one run; empty runs vanish
RECURSIVE Norm(_)
Norm(t) ==
    IF t = <<>> THEN <<>>
    ELSE IF Head(t)[2] = 0 THEN Norm(Tail(t))
    ELSE LET rest == Norm(Tail(t))
         IN  IF rest # <<>> /\ rest[1][1] = Head(t)[1]
             THEN <<Run(Head(t)[1], Head(t)[2] + rest[1][2])>> \o Tail(rest)
             ELSE <<Head(t)>> \o rest

UnitLen(c) ==
    CASE c \in {"Uncategorized", "regarding all"} -> 13
      [] c = "ignore all" -> 10
      [] OTHER -> 1

\* String.prototype.length
RECURSIVE TextLen(_)
TextLen(t) == IF t = <<>> THEN 0 ELSE UnitLen(Head(t)[1]) * Head(t)[2] + TextLen(Tail(t))

NotForbidden(r) == r[1] # ":"

\* .replace(/[<>:"|?*\\]/g, '')
RemoveForbidden(t) == Norm(SelectSeq(t, NotForbidden))

\* a removal of '..' that overlooks the pairs inside longer runs of dots
RemoveDotDotExactOnly(t) ==
    Norm([k \in 1..Len(t) |->
            IF t[k][1] = "." /\ t[k][2] = 2 THEN Run(".", 0) ELSE t[k]])

\* .replace(/\.\./g, ''): of a run of dots every pair goes
RemoveDotDot(t) ==
    Norm([k \in 1..Len(t) |->
            IF t[k][1] = "." THEN Run(".", t[k][2] % 2) ELSE t[k]])

\* .replace(/^[\/\\]+/, '')
StripLeadingSlashes(t) == IF t # <<>> /\ t[1][1] = "/" THEN Tail(t) ELSE t

\* .split('/'): n slashes in a row close the part before them and open n - 1
\* empty parts
RECURSIVE SplitFrom(_, _)
SplitFrom(t, cur) ==
    IF t = <<>> THEN <<cur>>
    ELSE IF Head(t)[1] = "/"
    THEN <<cur>> \o [k \in 1..(Head(t)[2] - 1) |-> <<>>] \o SplitFrom(Tail(t), <<>>)
    ELSE SplitFrom(Tail(t), Append(cur, Head(t)))

SplitSlash(t) == SplitFrom(t, <<>>)

\* String.prototype.trim
RECURSIVE TrimText(_)
TrimText(t) ==
    IF t = <<>> THEN t
    ELSE IF t[1][1] = " " THEN TrimText(Tail(t))
    ELSE IF t[Len(t)][1] = " " THEN TrimText(SubSeq(t, 1, Len(t) - 1))
    ELSE t

\* String.prototype.substring(0, n); what is left of a unit of several
\* characters that is cut through is a run of letters
RECURSIVE Take(_, _)
Take(t, n) ==
    IF t = <<>> \/ n <= 0 THEN <<>>
    ELSE LET c == Head(t)[1]
             len == UnitLen(c) * Head(t)[2]
         IN  IF len <= n THEN <<Head(t)>> \o Take(Tail(t), n - len)
             ELSE IF UnitLen(c) = 1 THEN <<Run(c, n)>>
             ELSE <<Run("a", n)>>

\* part.length > 0 && !part.startsWith('.')
KeptText(part) == part # <<>> /\ part[1][1] # "."

\* Array.prototype.join('/')
RECURSIVE JoinSlash(_)
JoinSlash(parts) ==
    IF parts = <<>> THEN <<>>
    ELSE IF Len(parts) = 1 THEN parts[1]
    ELSE parts[1] \o <<Run("/", 1)>> \o JoinSlash(Tail(parts))

UncategorizedText == <<Run("Uncategorized", 1)>>

\* SecuritySanitizer.sanitizeFolderPath(path)
sanitizeFolderPathText(isString, path) ==
    IF ~isString THEN UncategorizedText
    ELSE LET stripped == StripLeadingSlashes(RemoveDotDot(RemoveForbidden(Norm(path))))
             parts == SplitSlash(stripped)
             cut == [k \in 1..Len(parts) |-> Take(TrimText(parts[k]), 50)]
             joined == JoinSlash(FirstN(SelectSeq(cut, KeptText), 3))
         IN  IF joined = <<>> THEN UncategorizedText ELSE joined

SfIdle == [pc |-> "idle", isString |-> TRUE, path |-> <<>>, result |-> <<>>]

\* SecuritySanitizer.sanitizeFolderPath is called and returns
SfSanitize ==
    /\ sf.pc = "idle"
    /\ sf' = [sf EXCEPT !.pc = "done",
                        !.result = sanitizeFolderPathText(sf.isString, sf.path)]
    /\ UNCHANGED <<nodes, nextId, foc, approvedMoves, mig, log, wf, prop, cacheVars,
                   classifyVars, tm, sp, ex, moduleVars>>


----------------------------------------------------------------------------
(* SecuritySanitizer.sanitizeForPrompt on texts                            *)
(*                                                                         *)
(* Further characters of a text: "ctl" is any control, bidirectional       *)
(* override or zero-width character, "nl" a line break or tab, "q" a quote *)
(* character or backslash, "[" any curly or square bracket, "fw[" the      *)
(* full-width bracket U+FF3B, and "-", "=", "_" themselves.                *)

\* String.prototype.normalize('NFKC')
NFKC(t) == Norm([k \in 1..Len(t) |-> IF t[k][1] = "fw[" THEN Run("[", t[k][2]) ELSE t[k]])

RemoveChars(t, chars) ==
    LET Stays(r) == r[1] \notin chars
    IN  Norm(SelectSeq(t, Stays))

\* .replace(/[\r\n\t]+/g, ' ')
BreaksToSpace(t) == Norm([k \in 1..Len(t) |-> IF t[k][1] = "nl" THEN Run(" ", 1) ELSE t[k]])

\* .replace(/---|===|___/g, ''): one pass from the left, so of a run of n
\* such characters n mod 3 stay, and what stays is not looked at again
RemoveMarkers(t) ==
    Norm([k \in 1..Len(t) |->
            IF t[k][1] \in {"-", "=", "_"} THEN Run(t[k][1], t[k][2] % 3) ELSE t[k]])

\* containsPromptInjectionPatterns(text), for the one pattern of the model
containsPromptInjectionPatterns(t) == \E k \in 1..Len(t) : t[k][1] = "ignore all"

\* removePromptInjectionPatterns(text): 'ignore all' becomes 'regarding all'
removePromptInjectionPatterns(t) ==
    [k \in 1..Len(t) |-> IF t[k][1] = "ignore all" THEN Run("regarding all", t[k][2]) ELSE t[k]]

\* SecuritySanitizer.sanitizeForPrompt(input)
sanitizeForPrompt(isString, input) ==
    IF ~isString THEN <<>>
    ELSE LET normalized == NFKC(Norm(input))
             noControl == RemoveChars(normalized, {"ctl", "nl"})
             cleaned == TrimText(RemoveMarkers(RemoveChars(RemoveChars(
                            BreaksToSpace(noControl), {"q"}), {"["})))
             filtered == IF containsPromptInjectionPatterns(cleaned)
                         THEN removePromptInjectionPatterns(cleaned)
                         ELSE cleaned
         IN  Take(filtered, 300)

SpIdle == [pc |-> "idle", isString |-> TRUE, input |-> <<>>, result |-> <<>>]

\* SecuritySanitizer.sanitizeForPrompt is called and returns
SpSanitize ==
    /\ sp.pc = "idle"
    /\ sp' = [sp EXCEPT !.pc = "done",
                        !.result = sanitizeForPrompt(sp.isString, sp.input)]
    /\ UNCHANGED <<nodes, nextId, foc, approvedMoves, mig, log, wf, prop, cacheVars,
                   classifyVars, tm, sf, ex, moduleVars>>

----------------------------------------------------------------------------
(* utils/providers/base.js AIProvider.extractJsonArray, called on its own *)

ExIdle == [pc |-> "idle", rawResponse |-> <<>>, threw |-> FALSE, value |-> <<>>]

\* extractJsonArray(rawResponse) runs: it returns the array or throws
ExExtract ==
    /\ ex.pc = "idle"
    /\ LET extracted == extractJsonArray(ex.rawResponse)
       IN  ex' = [ex EXCEPT !.pc = IF extracted.threw THEN "threw" ELSE "returned",
                            !.threw = extracted.threw,
                            !.value = extracted.value]
    /\ UNCHANGED <<nodes, nextId, foc, approvedMoves, mig, log, wf, prop, cacheVars,
                   classifyVars, tm, sf, sp, moduleVars>>

\* no pure utility has been called
UtilIdle ==
    /\ tm = TmIdle
    /\ sf = SfIdle
    /\ sp = SpIdle
    /\ ex = ExIdle

----------------------------------------------------------------------------
(* utils/migration.js performMigrationWorkflow(userReviewCallback) *)

NoResult ==
    [phase |-> "none", proposals |-> 0, approved |-> 0, successful |-> 0,
     failed |-> 0, errors |-> <<>>]

\* what the review callback may settle with: null or undefined, a list of
\* proposals it approves, or a rejection
NoAnswer == [kind |-> "none", list |-> <<>>]

WfIdle ==
    [pc |-> "idle", reviewCalls |-> 0, reviewedWith |-> <<>>,
     answer |-> NoAnswer, storeAtCall |-> <<>>, result |-> NoResult]

\* the sub-lists of a list, order kept
RECURSIVE SubLists(_)
SubLists(q) ==
    IF q = <<>> THEN {<<>>}
    ELSE LET rest == SubLists(Tail(q))
         IN  rest \cup {<<Head(q)>> \o r : r \in rest}

ReviewAnswers(proposals) ==
    {[kind |-> k, list |-> <<>>] : k \in {"null", "rejects"}}
       \cup {[kind |-> "list", list |-> l] : l \in SubLists(proposals)}

\* a guard that lets the callback run on an empty proposal list
NoProposalsNever(proposals) == FALSE

\* proposals.length === 0
NoProposals(proposals) == Len(proposals) = 0

\* a guard that takes only null for a cancellation
NothingApprovedOnlyNull(answer) == answer.kind = "null"

\* !approvedMoves || approvedMoves.length === 0
NothingApproved(answer) == answer.kind = "null" \/ Len(answer.list) = 0

\* the call, up to await proposeBookmarkMoves()
WfStart ==
    /\ wf.pc = "idle"
    /\ wf' = [wf EXCEPT !.pc = "proposing", !.storeAtCall = nodes]
    /\ UNCHANGED <<nodes, nextId, foc, approvedMoves, mig, log, prop, cacheVars,
                   classifyVars, utilVars, moduleVars>>

\* proposeBookmarkMoves has returned: Phase 1 ends, Phase 2 calls the callback
WfReview ==
    /\ wf.pc = "proposing"
    /\ prop.pc = "returned"
    /\ LET proposals == prop.proposedMoves
       IN  IF NoProposals(proposals)
           THEN wf' = [wf EXCEPT
                         !.pc = "returned",
                         !.result = [NoResult EXCEPT !.phase = "complete"]]
           ELSE wf' = [wf EXCEPT
                         !.pc = "reviewing",
                         !.reviewCalls = wf.reviewCalls + 1,
                         !.reviewedWith = proposals]
    /\ UNCHANGED <<nodes, nextId, foc, approvedMoves, mig, log, prop, cacheVars,
                   classifyVars, utilVars, moduleVars>>

\* await userReviewCallback(proposals) settles; Phase 3 calls executeMigration
WfReviewed ==
    /\ wf.pc = "reviewing"
    /\ \E answer \in ReviewAnswers(prop.proposedMoves) :
         LET proposals == prop.proposedMoves
         IN  IF answer.kind = "rejects"
             THEN /\ wf' = [wf EXCEPT
                              !.pc = "returned", !.answer = answer,
                              !.result = [NoResult EXCEPT
                                            !.phase = "error",
                                            !.errors = <<"review">>]]
                  /\ UNCHANGED approvedMoves
             ELSE IF NothingApproved(answer)
             THEN /\ wf' = [wf EXCEPT
                              !.pc = "returned", !.answer = answer,
                              !.result = [NoResult EXCEPT
                                            !.phase = "cancelled",
                                            !.proposals = Len(proposals)]]
                  /\ UNCHANGED approvedMoves
             ELSE /\ wf' = [wf EXCEPT !.pc = "executing", !.answer = answer]
                  /\ approvedMoves' = answer.list
    /\ UNCHANGED <<nodes, nextId, foc, mig, log, prop, cacheVars, classifyVars,
                   utilVars, moduleVars>>

\* await executeMigration(approvedMoves) settles: the final results
WfDone ==
    /\ wf.pc = "executing"
    /\ mig.pc = "returned"
    /\ wf' = [wf EXCEPT
                !.pc = "returned",
                !.result = [phase |-> "complete",
                            proposals |-> Len(prop.proposedMoves),
                            approved |-> Len(approvedMoves),
                            successful |-> mig.successful,
                            failed |-> mig.failed,
                            errors |-> mig.errors]]
    /\ UNCHANGED <<nodes, nextId, foc, approvedMoves, mig, log, prop, cacheVars,
                   classifyVars, utilVars, moduleVars>>

----------------------------------------------------------------------------
(* utils/bookmark.js parseCategoryPath and buildCategoryPath, one after   *)
(* the other                                                               *)

CpIdle ==
    [pc |-> "idle", isString |-> TRUE, path |-> <<"">>, parts |-> <<>>,
     built |-> <<"">>, again |-> <<"">>]

\* typeof path !== 'string' ? [] : the parts
parseCategoryPathOf(isString, path) ==
    IF isString THEN parseCategoryPath(path) ELSE <<>>

\* buildCategoryPath(parseCategoryPath(path)), and the same once more on
\* the string it gave
CpRoundTrip ==
    /\ cp.pc = "idle"
    /\ LET parts == parseCategoryPathOf(cp.isString, cp.path)
           built == buildCategoryPath(parts)
       IN  cp' = [cp EXCEPT !.pc = "returned", !.parts = parts, !.built = built,
                            !.again = buildCategoryPath(parseCategoryPath(built))]
    /\ UNCHANGED CpFrame

----------------------------------------------------------------------------
(* utils/bookmark.js findOrCreateFolder, called again after it returned *)

\* the paths of the calls
SqPaths == {<<"Tech", "ai">>, <<"tech", "AI">>, <<"tech">>, <<"Ml", "", "ai">>, <<"">>}

SqIdle == [pc |-> "idle", path |-> <<"">>, before |-> 0, calls |-> <<>>]

\* const folderId = await findOrCreateFolder(path): the call
SqCall ==
    /\ sq.pc = "idle"
    /\ Len(sq.calls) < MaxCalls
    /\ foc["seq"].pc = "idle"
    /\ \E path \in SqPaths :
         /\ foc' = [foc EXCEPT !["seq"] = FocCall(path)]
         /\ sq' = [sq EXCEPT !.pc = "awaiting", !.path = path, !.before = nextId]
    /\ UNCHANGED <<nodes, nextId, approvedMoves, mig, log, prop, wf, cacheVars,
                   classifyVars, utilVars, SqOthers>>

\* the call returns parentId, or rejects; the folders it created are the
\* ids the store handed out meanwhile
SqReturn ==
    /\ sq.pc = "awaiting"
    /\ foc["seq"].pc \in {"done", "failed"}
    /\ sq' = [sq EXCEPT !.pc = "idle",
                        !.calls = Append(@, [path |-> sq.path,
                                             ok |-> foc["seq"].pc = "done",
                                             id |-> foc["seq"].parentId,
                                             before |-> sq.before,
                                             created |-> nextId - sq.before])]
    /\ foc' = [foc EXCEPT !["seq"] = FocIdle]
    /\ UNCHANGED <<nodes, nextId, approvedMoves, mig, log, prop, wf, cacheVars,
                   classifyVars, utilVars, SqOthers>>

----------------------------------------------------------------------------
(* utils/error.js executeWithRecovery, one await per step *)

RecoveryStrategy == {"retry", "fallback", "ignore", "fail"}

\* what fn can reject with: an Error, another value that has toString, or
\* null or undefined
ThrownKinds == {"Error", "string", "nullish"}

\* let lastError = null
NoLastError == [kind |-> "none", at |-> 0]

Pending == [how |-> "pending", value |-> "none", error |-> NoLastError]

ErIdle ==
    [pc |-> "idle", strategy |-> "fail", maxRetries |-> 3, fallbackValue |-> "null",
     attempt |-> 1, invoked |-> 0, succeeded |-> 0, lastError |-> NoLastError,
     outcome |-> Pending]

\* handleError: error instanceof Error ? error : new Error(error.toString())
\* raises a TypeError for null and undefined
handleErrorThrows(error) == error.kind \in {"none", "nullish"}

\* strategy === RecoveryStrategy.RETRY && attempt < maxRetries
RetriesLeft(strategy, attempt, maxRetries) ==
    strategy = "retry" /\ attempt < maxRetries

\* the call: the options are read, the loop starts at attempt 1
ErCall ==
    /\ er.pc = "idle"
    /\ er' = [er EXCEPT !.pc = "loop", !.attempt = 1]
    /\ UNCHANGED ErFrame

\* for (attempt <= maxRetries): fn() is invoked, or the loop is over
ErLoop ==
    /\ er.pc = "loop"
    /\ IF er.attempt <= er.maxRetries
       THEN er' = [er EXCEPT !.pc = "fn", !.invoked = @ + 1]
       ELSE er' = [er EXCEPT !.pc = "switch"]
    /\ UNCHANGED ErFrame

\* await fn() settles: return its result, or catch the error and either
\* wait before the next attempt or leave the loop
ErSettled ==
    /\ er.pc = "fn"
    /\ \/ er' = [er EXCEPT !.pc = "done", !.succeeded = @ + 1,
                           !.outcome = [how |-> "returned", value |-> "result",
                                        error |-> NoLastError]]
       \/ \E kind \in ThrownKinds :
            er' = [er EXCEPT !.lastError = [kind |-> kind, at |-> er.attempt],
                             !.pc = IF RetriesLeft(er.strategy, er.attempt,
                                                   er.maxRetries)
                                    THEN "delay" ELSE "switch"]
    /\ UNCHANGED ErFrame

\* await new Promise(resolve => setTimeout(resolve, retryDelay * attempt));
\* continue
ErDelay ==
    /\ er.pc = "delay"
    /\ er' = [er EXCEPT !.pc = "loop", !.attempt = @ + 1]
    /\ UNCHANGED ErFrame

\* switch (strategy) after the loop
ErSwitch ==
    /\ er.pc = "switch"
    /\ LET typeError == [how |-> "threw", value |-> "TypeError", error |-> NoLastError]
       IN  er' = [er EXCEPT
                 !.pc = "done",
                 !.outcome =
                    CASE er.strategy = "fallback" ->
                           IF handleErrorThrows(er.lastError) THEN typeError
                           ELSE [how |-> "returned", value |-> er.fallbackValue,
                                 error |-> NoLastError]
                      [] er.strategy = "ignore" ->
                           [how |-> "returned", value |-> "null", error |-> NoLastError]
                      [] OTHER ->
                           IF handleErrorThrows(er.lastError) THEN typeError
                           ELSE [how |-> "threw", value |-> "lastError",
                                 error |-> er.lastError]]
    /\ UNCHANGED ErFrame

----------------------------------------------------------------------------
(* BookmarkClassifier: classify and cancelClassification *)

\* what the background script can answer a classify message with
BcResponses == {"none", "runtimeError", "suggestions", "noSuggestions", "failure"}

\* constructor: this.isClassifying = false
BcIdle ==
    [isClassifying |-> FALSE, called |-> 0, inFlight |-> {}, cancels |-> 0,
     returned |-> <<>>]

\* the object classify returns for a response
BcResult(response) ==
    CASE response = "runtimeError" -> "runtime error"
      [] response = "none" -> "No response from classification service"
      [] response = "suggestions" -> "success"
      [] response = "noSuggestions" -> "success, no suggestions"
      [] OTHER -> "error"

\* classify(): refused while isClassifying, else the flag is set and the
\* message is sent
BcClassify ==
    /\ bc.called < MaxSent
    /\ IF bc.isClassifying
       THEN bc' = [bc EXCEPT !.called = @ + 1,
                             !.returned = Append(@, "Classification already in progress")]
       ELSE bc' = [bc EXCEPT !.called = @ + 1,
                             !.isClassifying = TRUE,
                             !.inFlight = @ \cup {bc.called + 1}]
    /\ UNCHANGED BcFrame

\* the response to a message arrives: classify returns, and its finally
\* block clears the flag
BcResponse ==
    /\ \E request \in bc.inFlight, response \in BcResponses :
         bc' = [bc EXCEPT !.inFlight = @ \ {request},
                          !.returned = Append(@, BcResult(response)),
                          !.isClassifying = FALSE]
    /\ UNCHANGED BcFrame

\* cancelClassification()
BcCancel ==
    /\ bc.isClassifying
    /\ bc' = [bc EXCEPT !.isClassifying = FALSE, !.cancels = @ + 1]
    /\ UNCHANGED BcFrame

----------------------------------------------------------------------------
(* MigrationController: the review of proposals in the popup *)

\* the indices a proposal list can have
McIndices == 0..1

\* constructor; chosenIn and carried record when an index was selected and
\* whether a review started with indices already selected
McIdle ==
    [pc |-> "idle", ui |-> "empty", migrationInProgress |-> FALSE, review |-> 0,
     currentProposals |-> 0, selectedProposals |-> {}, checked |-> {},
     chosenIn |-> [i \in McIndices |-> 0], timer |-> FALSE, carried |-> FALSE,
     executed |-> <<>>]

\* resetMigrationUI
McReset(m) ==
    [m EXCEPT !.currentProposals = 0, !.selectedProposals = {}, !.checked = {},
              !.migrationInProgress = FALSE, !.ui = "empty"]

\* this.selectedProposals.add(index), in the review on display
McAdd(m, S) ==
    [m EXCEPT !.selectedProposals = @ \cup S,
              !.chosenIn = [i \in McIndices |->
                              IF i \in S /\ i \notin m.selectedProposals
                              THEN m.review ELSE @[i]]]

\* startMigration up to await proposeBookmarkMoves(); a call during a
\* migration returns at once
McStart ==
    /\ mc.pc = "idle"
    /\ mc.review < MaxReviews
    /\ ~mc.migrationInProgress
    /\ mc' = [mc EXCEPT !.pc = "proposing", !.migrationInProgress = TRUE,
                        !.ui = "message", !.checked = {},
                        !.carried = @ \/ mc.selectedProposals # {}]
    /\ UNCHANGED McFrame

\* proposeBookmarkMoves settles: the new list is on display for review, or
\* a message is
McProposed ==
    /\ mc.pc = "proposing"
    /\ \/ \E n \in 0..(Cardinality(McIndices)) :
            mc' = [mc EXCEPT !.pc = "idle", !.migrationInProgress = FALSE,
                             !.review = @ + 1, !.currentProposals = n,
                             !.ui = IF n = 0 THEN "message" ELSE "review"]
       \/ mc' = [mc EXCEPT !.pc = "idle", !.migrationInProgress = FALSE]
    /\ UNCHANGED McFrame

\* a checkbox of the review changes
McToggle ==
    /\ mc.ui = "review"
    /\ \E index \in McIndices :
         /\ index < mc.currentProposals
         /\ IF index \in mc.checked
            THEN mc' = [mc EXCEPT !.checked = @ \ {index},
                                  !.selectedProposals = @ \ {index}]
            ELSE mc' = [McAdd(mc, {index}) EXCEPT !.checked = @ \cup {index}]
    /\ UNCHANGED McFrame

\* the buttons Select All and Select None
McSelectAll ==
    /\ mc.ui = "review"
    /\ LET boxes == {i \in McIndices : i < mc.currentProposals}
       IN  mc' = [McAdd(mc, boxes) EXCEPT !.checked = boxes]
    /\ UNCHANGED McFrame

McSelectNone ==
    /\ mc.ui = "review"
    /\ mc' = [mc EXCEPT !.checked = {}, !.selectedProposals = {}]
    /\ UNCHANGED McFrame

\* executeSelectedMigrations up to await executeMigration(selectedMoves):
\* the moves are currentProposals[index] for the selected indices
McExecute ==
    /\ mc.ui = "review"
    /\ mc.pc = "idle"
    /\ Len(mc.executed) < MaxReviews
    /\ mc.selectedProposals # {}
    /\ mc' = [mc EXCEPT !.pc = "executing", !.migrationInProgress = TRUE,
                        !.executed = Append(@,
                            {[index |-> i, ofReview |-> mc.review,
                              chosenIn |-> mc.chosenIn[i],
                              defined |-> i < mc.currentProposals]
                               : i \in mc.selectedProposals})]
    /\ UNCHANGED McFrame

\* executeMigration settles; after results the reset is scheduled
McExecuted ==
    /\ mc.pc = "executing"
    /\ \E ok \in BOOLEAN :
         mc' = [mc EXCEPT !.pc = "idle", !.migrationInProgress = FALSE,
                          !.timer = @ \/ ok]
    /\ UNCHANGED McFrame

\* setTimeout(() => this.resetMigrationUI(container), 3000) fires
McTimer ==
    /\ mc.timer
    /\ mc' = [McReset(mc) EXCEPT !.timer = FALSE]
    /\ UNCHANGED McFrame

\* the button Cancel, enabled outside a migration
McCancel ==
    /\ mc.ui = "review"
    /\ mc.pc = "idle"
    /\ mc' = McReset(mc)
    /\ UNCHANGED McFrame

----------------------------------------------------------------------------
(* utils/error/notifier.js NotificationManager: notify and processQueue *)

NotificationStrategy == {"toast", "badge", "notification", "console"}

\* constructor; drains counts the calls of processQueue inside their loop,
\* showing is the notification such a call is awaiting
NmIdle ==
    [notificationQueue |-> <<>>, isProcessing |-> FALSE, drains |-> 0,
     showing |-> <<>>, notified |-> 0, shown |-> <<>>, rejected |-> <<>>]

\* showNotification can reject: showBadge awaits chrome.action calls outside
\* any try; showToast catches, showChromeNotification takes a callback
CanReject(notification) == notification.strategy = "badge"

\* notify(): the notification is queued, and processQueue runs up to its
\* first await, unless a drain is marked as running or the queue is empty
NmNotify ==
    /\ nm.notified < MaxNotes
    /\ \E strategy \in NotificationStrategy :
         LET notification == [id |-> nm.notified + 1, strategy |-> strategy]
             queue == Append(nm.notificationQueue, notification)
         IN  IF nm.isProcessing
             THEN nm' = [nm EXCEPT !.notified = @ + 1, !.notificationQueue = queue]
             ELSE nm' = [nm EXCEPT !.notified = @ + 1,
                                   !.isProcessing = TRUE,
                                   !.drains = @ + 1,
                                   !.showing = <<Head(queue)>>,
                                   !.notificationQueue = Tail(queue)]
    /\ UNCHANGED NmFrame

\* await this.showNotification(notification) settles: the loop takes the
\* next notification or ends and clears the flag; a rejection ends
\* processQueue at the await
NmShown ==
    /\ nm.showing # <<>>
    /\ \E ok \in BOOLEAN :
         /\ ~ok => CanReject(nm.showing[1])
         /\ IF ok
            THEN IF nm.notificationQueue # <<>>
                 THEN nm' = [nm EXCEPT !.shown = Append(@, nm.showing[1].id),
                                       !.showing = <<Head(nm.notificationQueue)>>,
                                       !.notificationQueue = Tail(@)]
                 ELSE nm' = [nm EXCEPT !.shown = Append(@, nm.showing[1].id),
                                       !.showing = <<>>,
                                       !.drains = @ - 1,
                                       !.isProcessing = FALSE]
            ELSE nm' = [nm EXCEPT !.rejected = Append(@, nm.showing[1].id),
                                  !.showing = <<>>,
                                  !.drains = @ - 1]
    /\ UNCHANGED NmFrame

----------------------------------------------------------------------------
(* utils/config/migration.js migrateSettings, one await per step *)

\* the old keys of MIGRATION_MAP, in the order of the object (the cache keys
\* are handled like apiKey)
MIGRATION_MAP ==
    <<"apiKey", "aiProvider", "lmstudioHost", "lmstudioPort", "ollamaHost",
      "ollamaPort">>

\* the keys whose value goes to config.saveOverrides
OverrideKeys == {"aiProvider", "lmstudioHost", "lmstudioPort", "ollamaHost",
                 "ollamaPort"}

\* chrome.storage.local before any run: allData holds the old keys in
\* present; configOverrides is the set of old keys whose migrated value the
\* stored object holds; returned counts the runs that returned, earlier those
\* that had when the current run started
CmIdle ==
    [pc |-> "idle", run |-> 0, k |-> 1, present |-> {}, configOverrides |-> {},
     complete |-> FALSE, migrated |-> {}, failed |-> {}, writes |-> 0,
     returned |-> 0, earlier |-> 0]

\* Config.saveOverrides: chrome.storage.local.set({configOverrides: overrides})
\* stores the object it is given in place of the stored one
saveOverrides(stored, key) == {key}

\* migrateSettings(): the report is empty, storage is read
CmCall ==
    /\ cm.pc \in {"idle", "returned", "threw"}
    /\ cm.run < 2
    /\ cm' = [cm EXCEPT !.pc = "get", !.run = @ + 1, !.k = 1, !.migrated = {},
                        !.failed = {}, !.writes = 0, !.earlier = cm.returned]
    /\ UNCHANGED CmFrame

\* await chrome.storage.local.get(null) settles
CmGet ==
    /\ cm.pc = "get"
    /\ \E ok \in BOOLEAN :
         cm' = [cm EXCEPT !.pc = IF ~ok THEN "threw"
                                 ELSE IF cm.complete THEN "returned" ELSE "loop",
                          !.returned = IF ok /\ cm.complete THEN @ + 1 ELSE @]
    /\ UNCHANGED CmFrame

\* for (const [oldKey, newPath] of Object.entries(MIGRATION_MAP)), up to the
\* await of saveOverrides
CmKey ==
    /\ cm.pc = "loop"
    /\ IF cm.k > Len(MIGRATION_MAP)
       THEN cm' = [cm EXCEPT !.pc = "mark"]
       ELSE LET oldKey == MIGRATION_MAP[cm.k]
            IN  IF oldKey \notin cm.present
                THEN cm' = [cm EXCEPT !.k = @ + 1]
                ELSE IF oldKey \in OverrideKeys
                THEN cm' = [cm EXCEPT !.pc = "save"]
                ELSE cm' = [cm EXCEPT !.k = @ + 1,
                                      !.migrated = @ \cup {oldKey}]
    /\ UNCHANGED CmFrame

\* await config.saveOverrides(...) settles
CmSaved ==
    /\ cm.pc = "save"
    /\ LET oldKey == MIGRATION_MAP[cm.k]
       IN  \E ok \in BOOLEAN :
             IF ok
             THEN cm' = [cm EXCEPT !.pc = "loop", !.k = @ + 1,
                                   !.configOverrides = saveOverrides(@, oldKey),
                                   !.writes = @ + 1,
                                   !.migrated = @ \cup {oldKey}]
             ELSE cm' = [cm EXCEPT !.pc = "loop", !.k = @ + 1,
                                   !.failed = @ \cup {oldKey}]
    /\ UNCHANGED CmFrame

\* await chrome.storage.local.set({_configMigrationComplete: true}) settles
CmMark ==
    /\ cm.pc = "mark"
    /\ \E ok \in BOOLEAN :
         IF ok
         THEN cm' = [cm EXCEPT !.pc = "returned", !.complete = TRUE,
                               !.writes = @ + 1, !.returned = @ + 1]
         ELSE cm' = [cm EXCEPT !.pc = "threw"]
    /\ UNCHANGED CmFrame

----------------------------------------------------------------------------
(* lib/bookmarks.js getFolderStructure, called on its own *)

\* CACHE_DURATION, in milliseconds
CACHE_DURATION == 900000

FsIdle == [pc |-> "idle", calledAt |-> 0, getTreeCalls |-> 0, calls |-> <<>>]

\* folderCache && (now - cacheTime) < CACHE_DURATION
FolderCacheFresh(fc, t) == fc.set /\ (t - fc.cacheTime) < CACHE_DURATION

\* the call returns: it is added to the finished calls
FsFinished(how, at, result) ==
    Append(fs.calls, [how |-> how, at |-> at, result |-> result])

\* getFolderStructure() is called: now = Date.now(), folderCache = null and
\* cacheTime = 0, then the cache test, then the call of getTree
FsCall ==
    /\ fs.pc = "idle"
    /\ Len(fs.calls) < MaxCalls
    /\ LET reset == NoFolderCache
       IN  /\ folderCache' = reset
           /\ IF FolderCacheFresh(reset, now)
              THEN fs' = [fs EXCEPT !.calls = FsFinished("hit", now, reset.folders)]
              ELSE fs' = [fs EXCEPT !.pc = "tree", !.calledAt = now,
                                    !.getTreeCalls = fs.getTreeCalls + 1]
    /\ UNCHANGED <<nodes, nextId, foc, approvedMoves, mig, log, prop, wf, cacheVars,
                   llm, ai, utilVars, FsOthers>>

\* await chrome.bookmarks.getTree() settles: the list is built, cached with
\* the time read at the call, and returned; a rejection rejects the call
FsTree ==
    /\ fs.pc = "tree"
    /\ \E treeOk \in BOOLEAN :
         IF treeOk
         THEN LET folders == traverse(<<0>>, EmptyStr)
              IN  /\ folderCache' = [set |-> TRUE, folders |-> folders,
                                     cacheTime |-> fs.calledAt]
                  /\ fs' = [fs EXCEPT !.pc = "idle",
                                      !.calls = FsFinished("fetched", fs.calledAt, folders)]
         ELSE /\ fs' = [fs EXCEPT !.pc = "idle",
                                  !.calls = FsFinished("threw", fs.calledAt, <<>>)]
              /\ UNCHANGED folderCache
    /\ UNCHANGED <<nodes, nextId, foc, approvedMoves, mig, log, prop, wf, cacheVars,
                   llm, ai, utilVars, FsOthers>>

\* no other module has been called
ModulesIdle ==
    /\ fs = FsIdle
    /\ cp = CpIdle
    /\ sq = SqIdle
    /\ er = ErIdle
    /\ bc = BcIdle
    /\ mc = McIdle
    /\ nm = NmIdle
    /\ cm = CmIdle

\* every module but the one of fs is idle
OnlyFs ==
    /\ cp = CpIdle
    /\ sq = SqIdle
    /\ er = ErIdle
    /\ bc = BcIdle
    /\ mc = McIdle
    /\ nm = NmIdle
    /\ cm = CmIdle

\* every module but the one of cp is idle
OnlyCp ==
    /\ fs = FsIdle
    /\ sq = SqIdle
    /\ er = ErIdle
    /\ bc = BcIdle
    /\ mc = McIdle
    /\ nm = NmIdle
    /\ cm = CmIdle

\* every module but the one of sq is idle
OnlySq ==
    /\ fs = FsIdle
    /\ cp = CpIdle
    /\ er = ErIdle
    /\ bc = BcIdle
    /\ mc = McIdle
    /\ nm = NmIdle
    /\ cm = CmIdle

\* every module but the one of er is idle
OnlyEr ==
    /\ fs = FsIdle
    /\ cp = CpIdle
    /\ sq = SqIdle
    /\ bc = BcIdle
    /\ mc = McIdle
    /\ nm = NmIdle
    /\ cm = CmIdle

\* every module but the one of bc is idle
OnlyBc ==
    /\ fs = FsIdle
    /\ cp = CpIdle
    /\ sq = SqIdle
    /\ er = ErIdle
    /\ mc = McIdle
    /\ nm = NmIdle
    /\ cm = CmIdle

\* every module but the one of mc is idle
OnlyMc ==
    /\ fs = FsIdle
    /\ cp = CpIdle
    /\ sq = SqIdle
    /\ er = ErIdle
    /\ bc = BcIdle
    /\ nm = NmIdle
    /\ cm = CmIdle

\* every module but the one of nm is idle
OnlyNm ==
    /\ fs = FsIdle
    /\ cp = CpIdle
    /\ sq = SqIdle
    /\ er = ErIdle
    /\ bc = BcIdle
    /\ mc = McIdle
    /\ cm = CmIdle

\* every module but the one of cm is idle
OnlyCm ==
    /\ fs = FsIdle
    /\ cp = CpIdle
    /\ sq = SqIdle
    /\ er = ErIdle
    /\ bc = BcIdle
    /\ mc = McIdle
    /\ nm = NmIdle

----------------------------------------------------------------------------
(* Specification of executeMigration over a small store *)

MigStore ==
    (0 :> [parentId |-> NoId, title |-> <<"">>, url |-> "none"]) @@
    (1 :> [parentId |-> 0, title |-> <<"Bookmarks bar">>, url |-> "none"]) @@
    (2 :> [parentId |-> 1, title |-> <<"AI">>, url |-> "none"]) @@
    (3 :> [parentId |-> 2, title |-> <<"OpenAI Blog">>, url |-> "ok"]) @@
    (4 :> [parentId |-> 2, title |-> <<"General AI News">>, url |-> "ok"])

MigPaths == {<<"Tech", "ai", "ML">>, <<"ai">>, <<"">>}

MigMoves == [bookmarkId : {3, 4, 9}, newSuggestedFolderPath : MigPaths]

SeqsUpTo(S, n) == UNION {[1..k -> S] : k \in 0..n}

InitMig ==
    /\ nodes = MigStore
    /\ nextId = 5
    /\ foc = [c \in Callers |-> FocIdle]
    /\ approvedMoves \in SeqsUpTo(MigMoves, MaxMoves)
    /\ mig = MigIdle
    /\ log = <<>>
    /\ wf = WfIdle
    /\ prop = PropIdle
    /\ cache = NoEntry
    /\ now = 0
    /\ gs = GsIdle
    /\ calls = <<>>
    /\ llm = LlmIdle
    /\ ai = AiIdle
    /\ folderCache = NoFolderCache
    /\ UtilIdle
    /\ ModulesIdle

NextMig ==
    \/ MigStart
    \/ MigLoop
    \/ MigResolved
    \/ MigMove
    \/ FocLookup("mig")
    \/ FocCreate("mig")

SpecMig == InitMig /\ [][NextMig]_vars

----------------------------------------------------------------------------
(* Specification of proposeBookmarkMoves over every small bookmark tree *)

\* the tree every scan starts from: the two containers, a generic folder
\* "ai" on the bookmarks bar and a bookmark two folders deep, at ai/ML
BaseTree ==
    (0 :> [parentId |-> NoId, title |-> <<"">>, url |-> "none"]) @@
    (1 :> [parentId |-> 0, title |-> <<"Bookmarks bar">>, url |-> "none"]) @@
    (2 :> [parentId |-> 0, title |-> <<"Other bookmarks">>, url |-> "none"]) @@
    (3 :> [parentId |-> 1, title |-> <<"ai">>, url |-> "none"]) @@
    (4 :> [parentId |-> 3, title |-> <<"ML">>, url |-> "none"]) @@
    (5 :> [parentId |-> 4, title |-> <<"page">>, url |-> "ok"])

FirstFree == 6

FolderTitles == {<<"ai">>, <<"ML">>, <<"">>, <<" ">>}

\* what one more node may be: a folder of some title, or a bookmark whose
\* url the URL constructor accepts or rejects
NodeChoices(ids) ==
    [parentId : ids, title : FolderTitles, url : {"none"}]
       \cup [parentId : ids, title : {<<"page">>}, url : {"ok", "bad"}]

\* every node hangs below a container, under a folder older than itself
WellFormedTree(t) ==
    \A i \in DOMAIN t :
       i >= FirstFree =>
          /\ t[i].parentId < i
          /\ t[i].parentId # 0
          /\ t[t[i].parentId].url = "none"

\* the base tree extended by the nodes f in a well-formed way
IsTree(t, n) ==
    \E k \in 0..n :
       \E f \in [FirstFree..(FirstFree + k - 1) -> NodeChoices(1..(FirstFree + k - 2))] :
          /\ t = BaseTree @@ f
          /\ WellFormedTree(BaseTree @@ f)

InitProp ==
    /\ IsTree(nodes, MaxNodes)
    /\ nextId = FirstFree + MaxNodes
    /\ foc = [c \in Callers |-> FocIdle]
    /\ approvedMoves = <<>>
    /\ mig = MigIdle
    /\ log = <<>>
    /\ wf = WfIdle
    /\ \E hp \in BOOLEAN : prop = [PropIdle EXCEPT !.hasProcess = hp]
    /\ cache = NoEntry
    /\ now = 0
    /\ gs = GsIdle
    /\ calls = <<>>
    /\ llm = LlmIdle
    /\ ai = AiIdle
    /\ folderCache = NoFolderCache
    /\ UtilIdle
    /\ ModulesIdle

NextProp ==
    \/ PropStart
    \/ PropScan
    \/ PropClassified

SpecProp == InitProp /\ [][NextProp]_vars

----------------------------------------------------------------------------
(* Specification of the folder cache: calls of getBookmarkFolderStructure, *)
(* bookmark saves that create folders, and the passing of time             *)

CacheStore ==
    (0 :> [parentId |-> NoId, title |-> <<"">>, url |-> "none"]) @@
    (1 :> [parentId |-> 0, title |-> <<"Bookmarks bar">>, url |-> "none"]) @@
    (2 :> [parentId |-> 0, title |-> <<"Other bookmarks">>, url |-> "none"]) @@
    (3 :> [parentId |-> 1, title |-> <<"tech">>, url |-> "none"])

FirstCreated == 4

\* nothing is running, over the store of the cache specification
IdleProgram ==
    /\ nodes = CacheStore
    /\ nextId = FirstCreated
    /\ foc = [c \in Callers |-> FocIdle]
    /\ approvedMoves = <<>>
    /\ mig = MigIdle
    /\ log = <<>>
    /\ wf = WfIdle
    /\ prop = PropIdle
    /\ cache = NoEntry
    /\ now = 0
    /\ gs = GsIdle
    /\ calls = <<>>
    /\ llm = LlmIdle
    /\ ai = AiIdle
    /\ folderCache = NoFolderCache

InitCache == IdleProgram /\ UtilIdle /\ ModulesIdle

NextCache ==
    \/ GsCall
    \/ GsRead
    \/ GsFetch
    \/ GsWrite
    \/ GsFallback
    \/ Tick
    \/ SaveStart
    \/ FocLookup("save")
    \/ FocCreate("save")
    \/ SaveFinish

SpecCache == InitCache /\ [][NextCache]_vars

----------------------------------------------------------------------------
(* Specification of a classification through the provider layer *)

InitLLM == InitCache

NextLLM ==
    \/ LlmCall
    \/ GsRead
    \/ GsFetch
    \/ GsWrite
    \/ GsFallback
    \/ LlmPrompt
    \/ LlmSend
    \/ LlmResponse

SpecLLM == InitLLM /\ [][NextLLM]_vars

----------------------------------------------------------------------------
(* Specification of a classification through ai.js *)

InitAi == InitCache

NextAi ==
    \/ AiCall
    \/ AiTree
    \/ AiResponse

SpecAi == InitAi /\ [][NextAi]_vars

----------------------------------------------------------------------------
(* Specification of TokenManager.optimizeContext over bounded inputs *)

\* the folder lists: the first n folders of a repeated pattern of one or two
\* folder paths
PatternList(pattern, n) == [k \in 1..n |-> pattern[((k - 1) % Len(pattern)) + 1]]

\* the folder lists of the model: one or two kinds of folder repeated in
\* turn, and root folders followed by one nested folder
FolderLists ==
    {PatternList(pattern, n) :
        pattern \in UNION {[1..p -> FolderKinds] : p \in 1..2}, n \in 0..MaxFolders}
    \cup {PatternList(<<root>>, n - 1) \o <<sub>> :
            root \in {f \in FolderKinds : IsRootFolder(f)},
            sub \in {f \in FolderKinds : IsSubFolder(f)},
            n \in 1..MaxFolders}

BaseLens == {0, 70}

Budgets == {0, 19, 20} \cup (160..MaxBudget)

InitTm ==
    /\ IdleProgram
    /\ ModulesIdle
    /\ sf = SfIdle
    /\ sp = SpIdle
    /\ ex = ExIdle
    /\ \E folders \in FolderLists, baseLen \in BaseLens, budget \in Budgets :
         tm = [TmIdle EXCEPT !.folders = folders, !.baseLen = baseLen,
                             !.maxContextTokens = budget]

NextTm == TmOptimize

SpecTm == InitTm /\ [][NextTm]_vars

----------------------------------------------------------------------------
(* Specification of SecuritySanitizer.sanitizeFolderPath over bounded inputs *)

\* the segments an input path is made of
SegmentTexts ==
    { <<>>,
      <<Run("a", 1)>>,
      <<Run("a", 51)>>,
      <<Run(" ", 1), Run("a", 1), Run(" ", 1)>>,
      <<Run(" ", 1), Run("a", 51)>>,
      <<Run(".", 1), Run("a", 1)>>,
      <<Run(".", 2)>>,
      <<Run(".", 1), Run(":", 1), Run(".", 1), Run("a", 1)>>,
      <<Run("a", 1), Run(".", 3)>>,
      <<Run(":", 1)>> }

\* the input paths: up to MaxSegments segments with '/' between them
PathTexts ==
    {JoinSlash(segs) : segs \in UNION {[1..n -> SegmentTexts] : n \in 0..MaxSegments}}

InitSf ==
    /\ IdleProgram
    /\ ModulesIdle
    /\ tm = TmIdle
    /\ sp = SpIdle
    /\ ex = ExIdle
    /\ \E isString \in BOOLEAN, path \in PathTexts :
         /\ (~isString => path = <<>>)
         /\ sf = [SfIdle EXCEPT !.isString = isString, !.path = path]

NextSf == SfSanitize

SpecSf == InitSf /\ [][NextSf]_vars

----------------------------------------------------------------------------
(* Specification of SecuritySanitizer.sanitizeForPrompt over bounded inputs *)

PromptRuns ==
    {Run("-", 1), Run("-", 2), Run("-", 3), Run("=", 1), Run("=", 2), Run("=", 3),
     Run("_", 3), Run("a", 1), Run("a", 300), Run(" ", 1), Run("[", 1),
     Run("fw[", 1), Run("ctl", 1), Run("nl", 1), Run("q", 1), Run("ignore all", 1)}

PromptTexts == UNION {[1..n -> PromptRuns] : n \in 0..MaxRuns}

InitSp ==
    /\ IdleProgram
    /\ ModulesIdle
    /\ tm = TmIdle
    /\ sf = SfIdle
    /\ ex = ExIdle
    /\ \E isString \in BOOLEAN, input \in PromptTexts :
         /\ (~isString => input = <<>>)
         /\ sp = [SpIdle EXCEPT !.isString = isString, !.input = input]

NextSp == SpSanitize

SpecSp == InitSp /\ [][NextSp]_vars

----------------------------------------------------------------------------
(* Specification of performMigrationWorkflow over every small bookmark    *)
(* tree: one call, with the steps of proposeBookmarkMoves, of the review  *)
(* callback and of executeMigration it awaits                             *)

InitWf == InitProp

NextWf ==
    \/ WfStart
    \/ wf.pc = "proposing" /\ PropStart
    \/ wf.pc = "proposing" /\ PropScan
    \/ wf.pc = "proposing" /\ PropClassified
    \/ WfReview
    \/ WfReviewed
    \/ wf.pc = "executing" /\ MigStart
    \/ wf.pc = "executing" /\ MigLoop
    \/ wf.pc = "executing" /\ MigResolved
    \/ wf.pc = "executing" /\ MigMove
    \/ wf.pc = "executing" /\ FocLookup("mig")
    \/ wf.pc = "executing" /\ FocCreate("mig")
    \/ WfDone

SpecWf == InitWf /\ [][NextWf]_vars

----------------------------------------------------------------------------
(* Specification of extractJsonArray: one call on any response text *)

InitEx ==
    /\ IdleProgram
    /\ ModulesIdle
    /\ tm = TmIdle
    /\ sf = SfIdle
    /\ sp = SpIdle
    /\ \E rawResponse \in Texts : ex = [ExIdle EXCEPT !.rawResponse = rawResponse]

NextEx == ExExtract

SpecEx == InitEx /\ [][NextEx]_vars

----------------------------------------------------------------------------
(* Specification of lib/bookmarks.js getFolderStructure: up to MaxCalls    *)
(* calls one after the other, while time passes                            *)

InitFs == InitCache

NextFs ==
    \/ FsCall
    \/ FsTree
    \/ Tick

SpecFs == InitFs /\ [][NextFs]_vars

----------------------------------------------------------------------------
(* Specification of findOrCreateFolder called in sequence *)

InitSq == InitCache

NextSq ==
    \/ SqCall
    \/ FocLookup("seq")
    \/ FocCreate("seq")
    \/ SqReturn

SpecSq == InitSq /\ [][NextSq]_vars

----------------------------------------------------------------------------
(* Specification of the category path round trip over every short path *)

\* the segments of the paths: blank ones, ones that start with a lower-case
\* letter, with an upper-case letter, with a character without case
CpPieces == {"", " ", "ai", "Ai", "AI", "tech", "Tech", "(sharp s)eta", " ai"}

CpPaths == UNION {[1..k -> CpPieces] : k \in 1..MaxPieces}

InitCp ==
    /\ IdleProgram
    /\ UtilIdle
    /\ OnlyCp
    /\ \E isString \in BOOLEAN, path \in CpPaths :
         cp = [CpIdle EXCEPT !.isString = isString, !.path = path]

NextCp == CpRoundTrip

SpecCp == InitCp /\ [][NextCp]_vars

----------------------------------------------------------------------------
(* Specification of executeWithRecovery under every strategy *)

InitEr ==
    /\ IdleProgram
    /\ UtilIdle
    /\ OnlyEr
    /\ \E strategy \in RecoveryStrategy, maxRetries \in 0..MaxRetries,
          fallbackValue \in {"null", "fallback"} :
         er = [ErIdle EXCEPT !.strategy = strategy, !.maxRetries = maxRetries,
                             !.fallbackValue = fallbackValue]

NextEr ==
    \/ ErCall
    \/ ErLoop
    \/ ErSettled
    \/ ErDelay
    \/ ErSwitch

SpecEr == InitEr /\ [][NextEr]_vars

----------------------------------------------------------------------------
(* Specification of a bookmark save that arrives during a migration *)

InitCc == InitMig /\ Len(approvedMoves) <= 1

NextCc ==
    \/ MigStart
    \/ MigLoop
    \/ MigResolved
    \/ MigMove
    \/ FocLookup("mig")
    \/ FocCreate("mig")
    \/ SaveStart
    \/ FocLookup("save")
    \/ FocCreate("save")
    \/ SaveFinish

SpecCc == InitCc /\ [][NextCc]_vars

----------------------------------------------------------------------------
(* Specification of one BookmarkClassifier *)

InitBc == InitCache

NextBc ==
    \/ BcClassify
    \/ BcResponse
    \/ BcCancel

SpecBc == InitBc /\ [][NextBc]_vars

----------------------------------------------------------------------------
(* Specification of one MigrationController in the popup *)

InitMc == InitCache

NextMc ==
    \/ McStart
    \/ McProposed
    \/ McToggle
    \/ McSelectAll
    \/ McSelectNone
    \/ McExecute
    \/ McExecuted
    \/ McTimer
    \/ McCancel

SpecMc == InitMc /\ [][NextMc]_vars

----------------------------------------------------------------------------
(* Specification of one NotificationManager *)

InitNm == InitCache

NextNm ==
    \/ NmNotify
    \/ NmShown

SpecNm == InitNm /\ [][NextNm]_vars

\* every await of the drain loop settles
FairNm == SpecNm /\ WF_vars(NmShown)

----------------------------------------------------------------------------
(* Specification of migrateSettings over every set of old keys *)

InitCm ==
    /\ IdleProgram
    /\ UtilIdle
    /\ OnlyCm
    /\ \E present \in SUBSET {MIGRATION_MAP[k] : k \in 1..Len(MIGRATION_MAP)} :
         cm = [CmIdle EXCEPT !.present = present]

NextCm ==
    \/ CmCall
    \/ CmGet
    \/ CmKey
    \/ CmSaved
    \/ CmMark

SpecCm == InitCm /\ [][NextCm]_vars

----------------------------------------------------------------------------
(* Claims about executeMigration *)

Occurs(e) == \E p \in 1..Len(log) : log[p] = e

\* C1: when executeMigration returns, every approved move was attempted,
\* successful + failed is the number of approved moves and there is one
\* error message per failed move, whatever failed along the way.
C1_BatchAccounting ==
    mig.pc = "returned" =>
        /\ mig.successful + mig.failed = Len(approvedMoves)
        /\ Len(mig.errors) = mig.failed
        /\ \A i \in 1..Len(approvedMoves) : Occurs(<<"resolve", i>>)
        /\ \A i \in 1..Len(approvedMoves) :
              Occurs(<<"moved", i>>) \/ Occurs(<<"failed", i>>)

\* a batch whose first move failed in folder resolution, whose second failed
\* in the store move and whose third succeeded
C1_Witness ==
    /\ mig.pc = "returned"
    /\ Len(approvedMoves) = 3
    /\ mig.errors = <<<<approvedMoves[1].bookmarkId, "folder">>,
                      <<approvedMoves[2].bookmarkId, "move">>>>
    /\ mig.successful = 1
    /\ Occurs(<<"moved", 3>>)

\* the chain of folder titles from the bookmarks bar down to a folder
RECURSIVE TitlesTo(_)
TitlesTo(id) ==
    IF id = BarId \/ id \notin DOMAIN nodes \/ nodes[id].parentId = NoId
    THEN <<>>
    ELSE TitlesTo(nodes[id].parentId) \o <<LowerStr(nodes[id].title)>>

\* the folder findOrCreateFolder returned exists and lies at the asked path
DestinationReady ==
    /\ foc["mig"].pc = "done"
    /\ IsFolder(foc["mig"].parentId)
    /\ LET want == parseCategoryPath(approvedMoves[mig.i].newSuggestedFolderPath)
      IN  TitlesTo(foc["mig"].parentId) = [k \in 1..Len(want) |-> <<Lower(want[k])>>]

\* C2: moves are processed one at a time in list order; the store move of
\* move i is issued only once its destination folder is resolved or created,
\* never after a failed resolution, and move i+1 starts only after move i
\* has succeeded or failed.
C2_SequentialOrder ==
    /\ mig.pc = "moving" => DestinationReady
    /\ \A p \in 1..Len(log) :
         LET kind == log[p][1]
             i == log[p][2]
         IN  CASE kind = "resolve" ->
                    \/ p = 1 /\ i = 1
                    \/ p > 1 /\ log[p-1] \in {<<"moved", i - 1>>, <<"failed", i - 1>>}
               [] kind = "move" -> p > 1 /\ log[p-1] = <<"resolve", i>>
               [] kind = "moved" -> p > 1 /\ log[p-1] = <<"move", i>>
               [] kind = "failed" ->
                    p > 1 /\ log[p-1] \in {<<"resolve", i>>, <<"move", i>>}

\* the second move is about to be issued, after the first one was settled
\* and a folder had to be created for one of them
C2_Witness ==
    /\ mig.pc = "moving"
    /\ mig.i = 2
    /\ nextId > 5
    /\ Occurs(<<"moved", 1>>)

----------------------------------------------------------------------------
(* Claims about proposeBookmarkMoves *)

\* a path of exactly one segment, and that segment a generic folder name
GenericSingleLevel(path) ==
    LET parts == SelectSeq(path, NotBlank)
    IN  Len(parts) = 1 /\ Lower(parts[1]) \in {"ai", "tech"}

C4_SuggestionImproves ==
    \A j \in 1..Len(prop.proposedMoves) :
       LET p == prop.proposedMoves[j]
           newParts == SelectSeq(p.newSuggestedFolderPath, NotBlank)
       IN  /\ LowerStr(p.newSuggestedFolderPath) # LowerStr(p.originalFolderPath)
           /\ \/ Len(newParts) > 1
              \/ Len(newParts) = 1 /\ Lower(newParts[1]) \notin {"ai", "tech"}

\* two candidates were classified; the one that got a specific single-level
\* suggestion became a proposal, the other one did not
C4_Witness ==
    /\ prop.pc = "returned"
    /\ Len(prop.llmCalls) = 2
    /\ prop.skipped = {}
    /\ Len(prop.proposedMoves) = 1
    /\ prop.proposedMoves[1].newSuggestedFolderPath = <<"ML">>

\* C5: a failure on one candidate does not abort the scan: when the scan
\* returns, every candidate the tree holds has been handed to the classifier
\* unless its own metadata could not be built.
C5_FailureSkipped ==
    prop.pc = "returned" =>
       \A k \in 1..Len(prop.all) :
          (GenericSingleLevel(prop.all[k].normalizedFolderPath) /\ prop.all[k].url = "ok")
             => prop.all[k].id \in {prop.llmCalls[j] : j \in 1..Len(prop.llmCalls)}

\* the part of C5 the code keeps: a rejected classification is skipped and
\* the scan goes on to classify a later candidate
C5_RejectionSkipped ==
    \A k \in prop.skipped : prop.pc = "returned" => prop.k > Len(prop.all) \/ prop.k > k

----------------------------------------------------------------------------
(* Claims about getBookmarkFolderStructure and its cache *)

Last == calls[Len(calls)]

RECURSIVE PathTo(_)
PathTo(id) ==
    IF nodes[nodes[id].parentId].parentId = 0
    THEN nodes[id].title
    ELSE PathTo(nodes[id].parentId) \o nodes[id].title

Listed(path, list) == \E k \in 1..Len(list) : list[k] = path

\* C7: a call of getBookmarkFolderStructure that did not fall back after a
\* failed fetch returns a list that contains the path of every folder
\* findOrCreateFolder had created before the call was made.
C7_CreatedFolderListed ==
    (calls # <<>> /\ Last.how # "fallback")
    => \A id \in FirstCreated..(Last.idsAtCall - 1) :
         IsFolder(id) => Listed(PathTo(id), Last.result)

----------------------------------------------------------------------------
(* Claims about classification results *)

\* C9: a classification call through the provider layer that returns a list
\* returns at most 5 suggestions.
C9_AtMostFive ==
    llm.pc = "returned" => Len(llm.suggestions) <= 5

\* C10: ai.js classifyBookmark, given a backend response text, returns
\* between 1 and 5 suggestions, and exactly the one 'Uncategorized' sentinel
\* when the text holds no parsable array of valid items.
C10_OneToFive ==
    ai.pc = "returned" =>
      /\ Len(ai.suggestions) \in 1..5
      /\ (LET match == MatchArray(ai.rawResponse)
              parsed == JSONparse(match.text)
          IN  (~match.found \/ ~parsed.ok \/ ~validateAIResponse(parsed.value))
              => ai.suggestions = Sentinel)

\* ai.js classifyBookmark never returns more than 5 suggestions, and returns
\* the sentinel when the text holds no parsable array of valid items
C10_AtMostFiveOrSentinel ==
    ai.pc = "returned" =>
      /\ Len(ai.suggestions) <= 5
      /\ (LET match == MatchArray(ai.rawResponse)
              parsed == JSONparse(match.text)
          IN  (~match.found \/ ~parsed.ok \/ ~validateAIResponse(parsed.value))
              => ai.suggestions = Sentinel)

\* C11: when the array parsed from the response holds at least one valid
\* item together with invalid ones, ai.js parseResponse returns the
\* sanitized valid items in their received order (the first five of them)
\* and not the sentinel.
C11_InvalidItemsDropped ==
    ai.pc = "returned" =>
      LET match == MatchArray(ai.rawResponse)
          parsed == JSONparse(match.text)
          valid == SelectSeq(parsed.value, ValidItem)
      IN  (/\ match.found
           /\ parsed.ok
           /\ parsed.isArray
           /\ valid # <<>>
           /\ Len(valid) < Len(parsed.value))
          => ai.suggestions =
               FirstN([k \in 1..Len(valid) |->
                         [folderPath |-> sanitizeFolderPath(valid[k].folderPath)]], 5)

----------------------------------------------------------------------------
(* Claims about TokenManager *)

\* the folders of a list at the positions of S, in order
SubList(folders, S) ==
    LET Keep(k) == k \in S
        idx == SelectSeq([k \in 1..Len(folders) |-> k], Keep)
    IN  [j \in 1..Len(idx) |-> folders[idx[j]]]

ResultEstimate ==
    estimateTokenCount(tm.baseLen + buildContextSectionLen(tm.result.folders))

\* C12: optimizeContext returns a result whose tokenCount is the estimate
\* of basePrompt + buildContextSection(result.folders) (for an empty input
\* list the untouched 0); a non-empty result fits maxContextTokens; and a
\* result over the budget is returned only when no non-empty subset of the
\* folders fits.
C12_FitsBudget ==
    tm.pc = "done" =>
      /\ tm.folders # <<>> => tm.result.tokenCount = ResultEstimate
      /\ tm.result.folders # <<>> => ResultEstimate <= tm.maxContextTokens
      /\ ResultEstimate > tm.maxContextTokens =>
           \A S \in SUBSET (1..Len(tm.folders)) \ {{}} :
             estimateTokenCount(tm.baseLen
                 + buildContextSectionLen(SubList(tm.folders, S)))
               > tm.maxContextTokens

\* the full list is over the budget and a smaller, non-empty list is returned
C12_Witness ==
    /\ tm.pc = "done"
    /\ tm.result.optimizationApplied
    /\ tm.result.folders # <<>>
    /\ Len(tm.result.folders) < Len(tm.folders)
    /\ tm.result.tokenCount <= tm.maxContextTokens

----------------------------------------------------------------------------
(* Claims about SecuritySanitizer *)

\* the segments of a path that are left, trimmed, once the forbidden
\* characters, the '..' and the leading slashes are gone
Survivors(path) ==
    LET parts == SplitSlash(StripLeadingSlashes(RemoveDotDot(RemoveForbidden(Norm(path)))))
    IN  SelectSeq([k \in 1..Len(parts) |-> TrimText(parts[k])], KeptText)

\* C13: sanitizeFolderPath returns 'Uncategorized', or 1 to 3 segments with
\* '/' between them, each non-empty and at most 50 characters long, holding
\* no forbidden character and no '..'; it returns 'Uncategorized' for a
\* non-string and whenever no segment of the input survives, and it returns
\* as many segments as survive, up to 3, never more by padding.
C13_SanitizedPath ==
    sf.pc = "done" =>
      LET out == SplitSlash(sf.result)
          survivors == Survivors(sf.path)
      IN  /\ Len(out) \in 1..3
          /\ \A k \in 1..Len(out) :
               /\ TextLen(out[k]) \in 1..50
               /\ \A j \in 1..Len(out[k]) :
                    /\ out[k][j][1] \notin {":", "/"}
                    /\ out[k][j][1] = "." => out[k][j][2] = 1
                    /\ j < Len(out[k]) => out[k][j][1] # out[k][j + 1][1]
          /\ (~sf.isString \/ survivors = <<>>) <=> sf.result = UncategorizedText
          /\ (sf.isString /\ survivors # <<>>) =>
               Len(out) = (IF Len(survivors) < 3 THEN Len(survivors) ELSE 3)

\* a path of four surviving segments, one of them longer than 50
\* characters, comes back as three segments
C13_Witness ==
    /\ sf.pc = "done"
    /\ sf.isString
    /\ Len(SplitSlash(sf.path)) = 4
    /\ \E k \in 1..3 : TextLen(SplitSlash(sf.path)[k]) > 50
    /\ Len(SplitSlash(sf.result)) = 3
    /\ \A k \in 1..3 : TextLen(SplitSlash(sf.result)[k]) \in 1..50

\* C14: the output of sanitizeForPrompt has at most 300 characters and
\* holds no control, bidirectional-override or zero-width character, no
\* bracket, no backslash or quote character, and no '---' or '==='.
C14_PromptSafe ==
    sp.pc = "done" =>
      /\ TextLen(sp.result) <= 300
      /\ \A k \in 1..Len(Norm(sp.result)) :
           LET r == Norm(sp.result)[k]
           IN  /\ r[1] \notin {"ctl", "nl", "q", "[", "fw["}
               /\ r[1] \in {"-", "="} => r[2] < 3

\* the output has at most 300 characters and holds no control character,
\* bracket, backslash or quote character
C14_CharactersRemoved ==
    sp.pc = "done" =>
      /\ TextLen(sp.result) <= 300
      /\ \A k \in 1..Len(sp.result) :
           sp.result[k][1] \notin {"ctl", "nl", "q", "[", "fw["}

\* C15: when the backend answers with an error status, makeRequest raises
\* an APIError that carries the adapter's provider name and the status code,
\* for all three adapters and whether or not the error body is JSON.
C15_StatusBecomesAPIError ==
    (llm.pc = "threw" /\ llm.outcome.kind = "status")
    => llm.requestRaised = [type |-> "APIError", provider |-> llm.provider,
                            statusCode |-> llm.outcome.status]

\* for LM Studio and Ollama an error status always becomes an APIError with
\* the provider name and the status code; for Gemini when the body is JSON
C15_StatusWithReadableBody ==
    (/\ llm.pc = "threw"
     /\ llm.outcome.kind = "status"
     /\ (llm.provider # "gemini" \/ llm.outcome.bodyIsJson))
    => llm.requestRaised = [type |-> "APIError", provider |-> llm.provider,
                            statusCode |-> llm.outcome.status]

----------------------------------------------------------------------------
(* Claims about performMigrationWorkflow *)

\* C16: the review callback is called at most once, only after
\* proposeBookmarkMoves has returned, only with at least one proposal, and
\* with exactly the list it returned; with no proposal the workflow returns
\* phase 'complete' with proposals = 0, the callback never called, no folder
\* created and no bookmark moved
C16_ReviewOnceWithProposals ==
    /\ wf.reviewCalls <= 1
    /\ wf.reviewCalls = 1 =>
          /\ prop.pc = "returned"
          /\ Len(prop.proposedMoves) >= 1
          /\ wf.reviewedWith = prop.proposedMoves
    /\ (wf.pc = "returned" /\ prop.proposedMoves = <<>>) =>
          /\ wf.result.phase = "complete"
          /\ wf.result.proposals = 0
          /\ wf.reviewCalls = 0
          /\ mig = MigIdle
          /\ nodes = wf.storeAtCall
          /\ nextId = FirstFree + MaxNodes

\* the callback has been called with two proposals and the workflow went on
\* to move a bookmark
C16_Witness ==
    /\ wf.pc = "returned"
    /\ wf.reviewCalls = 1
    /\ Len(wf.reviewedWith) = 2
    /\ wf.result.phase = "complete"
    /\ wf.result.successful >= 1

\* C17: when the callback approves nothing, by an empty list or by null, the
\* workflow ends in phase 'cancelled' with approved = 0 and proposals = the
\* number generated, executeMigration is never called and the store is as it
\* was at the call
C17_NothingApprovedCancels ==
    (wf.answer.kind = "null" \/ (wf.answer.kind = "list" /\ wf.answer.list = <<>>)) =>
       /\ wf.pc = "returned"
       /\ wf.result.phase = "cancelled"
       /\ wf.result.approved = 0
       /\ wf.result.proposals = Len(prop.proposedMoves)
       /\ wf.result.proposals >= 1
       /\ mig = MigIdle
       /\ approvedMoves = <<>>
       /\ log = <<>>
       /\ nodes = wf.storeAtCall
       /\ nextId = FirstFree + MaxNodes

\* the callback answered a list of two proposals with the empty list
C17_Witness ==
    /\ wf.pc = "returned"
    /\ wf.answer.kind = "list"
    /\ wf.answer.list = <<>>
    /\ Len(wf.reviewedWith) = 2
    /\ wf.result.phase = "cancelled"

----------------------------------------------------------------------------
(* Claims about AIProvider.getFolderSuggestions and extractJsonArray *)

CallOrder == <<"validateConfig", "makeRequest", "parseResponse">>

\* C18: getFolderSuggestions runs validateConfig, makeRequest, parseResponse
\* in that order and issues no request when validateConfig raises; whatever
\* escapes it is a ConfigurationError, a NetworkError or an APIError, and
\* any other exception of makeRequest or parseResponse has become an
\* APIError that carries the provider's name
C18_OrderAndTypedErrors ==
    /\ \E n \in 0..3 : llm.steps = SubSeq(CallOrder, 1, n)
    /\ llm.pc = "returned" => llm.steps = CallOrder
    /\ llm.pc = "threw" =>
          /\ llm.raised.type \in {"ConfigurationError", "NetworkError", "APIError"}
          /\ llm.raised.type = "ConfigurationError" => llm.steps = <<"validateConfig">>
          /\ llm.requestRaised.type \in {"TypeError", "SyntaxError"} =>
                /\ llm.steps = <<"validateConfig", "makeRequest">>
                /\ llm.raised = [type |-> "APIError",
                                 provider |-> ThisName(llm.provider),
                                 statusCode |-> 0]
          /\ llm.parseRaised.type = "TypeError" =>
                /\ llm.steps = CallOrder
                /\ llm.raised = [type |-> "APIError",
                                 provider |-> ThisName(llm.provider),
                                 statusCode |-> 0]

\* a TypeError of parseResponse has left getFolderSuggestions as an APIError
C18_Witness ==
    /\ llm.pc = "threw"
    /\ llm.parseRaised.type = "TypeError"
    /\ llm.raised.type = "APIError"
    /\ llm.steps = CallOrder

\* a text without the prose that leads it and the prose that trails it
WithoutProse(t) ==
    LET from == IF t # <<>> /\ Head(t) = "prose" THEN 2 ELSE 1
        to == IF t # <<>> /\ t[Len(t)] = "prose" THEN Len(t) - 1 ELSE Len(t)
    IN  SubSeq(t, from, to)

\* prose, one valid JSON array, prose; either prose may be missing
ArrayInProse(t) ==
    /\ JSONparse(WithoutProse(t)).ok
    /\ JSONparse(WithoutProse(t)).isArray

\* C19: on a text made of optional leading prose, one valid JSON array and
\* optional trailing prose, extractJsonArray does not throw and returns
\* exactly the parsed array, whether the prose is before, after or on both
\* sides of the array
C19_ArrayInProseExtracted ==
    (ex.pc # "idle" /\ ArrayInProse(ex.rawResponse)) =>
       /\ ex.pc = "returned"
       /\ ex.value = JSONparse(WithoutProse(ex.rawResponse)).value

\* with nothing but white space after the array the array is returned,
\* whatever prose leads it
C19_LeadingProseExtracted ==
    (/\ ex.pc # "idle"
     /\ ArrayInProse(ex.rawResponse)
     /\ ex.rawResponse[Len(ex.rawResponse)] # "prose") =>
       /\ ex.pc = "returned"
       /\ ex.value = JSONparse(WithoutProse(ex.rawResponse)).value

\* with prose on both sides the array is returned as well
C19_ProseOnBothSidesExtracted ==
    (/\ ex.pc # "idle"
     /\ ArrayInProse(ex.rawResponse)
     /\ Head(ex.rawResponse) = "prose") =>
       /\ ex.pc = "returned"
       /\ ex.value = JSONparse(WithoutProse(ex.rawResponse)).value

----------------------------------------------------------------------------
(* Claims about the expiry of the folder cache *)

\* Date.now() is past the expiry stored with the list
Expired == cache.present /\ now > cache.expiry

\* the entry setCachedFolderStructure stores for a list at the present time
EntryFor(folderPaths) ==
    [present |-> TRUE, data |-> folderPaths, expiry |-> now + TTL]

----------------------------------------------------------------------------
(* Claims about lib/bookmarks.js getFolderStructure *)

\* C21: a call of getFolderStructure made less than CACHE_DURATION (15
\* minutes) after a call that returned a list, with no folder created in
\* between, returns that list from the cache: getTree is not called again
C21_CachedWithinDuration ==
    \A k \in 1..(Len(fs.calls) - 1) :
       (/\ fs.calls[k].how # "threw"
        /\ fs.calls[k + 1].at - fs.calls[k].at < CACHE_DURATION)
       => (/\ fs.calls[k + 1].how = "hit"
           /\ fs.calls[k + 1].result = fs.calls[k].result)

\* getTree is called once for every call of getFolderStructure
C21_AlwaysFetches ==
    /\ fs.getTreeCalls = Len(fs.calls) + (IF fs.pc = "tree" THEN 1 ELSE 0)
    /\ \A k \in 1..Len(fs.calls) : fs.calls[k].how # "hit"
    /\ CACHE_DURATION = 15 * 60 * 1000

----------------------------------------------------------------------------
(* Claims about TokenManager.prioritizeFolders *)

\* C22: prioritizeFolders returns at most maxFolders paths, so that a
\* result of optimizeContext that was optimized holds at most as many
\* folders as the ceiling the loop stopped at (at most 100, and at most 10
\* at the smallest ceiling)
C22_WithinCeiling ==
    (tm.pc = "done" /\ tm.result.optimizationApplied /\ tm.result.limit > 0) =>
       /\ tm.result.includedCount <= tm.result.limit
       /\ Len(tm.result.folders) <= 100

\* while the root folders are no more than the ceiling, so is the result
C22_WithinCeilingByRoots ==
    (/\ tm.pc = "done"
     /\ tm.result.optimizationApplied
     /\ tm.result.limit > 0
     /\ Len(SelectSeq(tm.folders, IsRootFolder)) <= tm.result.limit) =>
       tm.result.includedCount <= tm.result.limit

----------------------------------------------------------------------------
(* Claims about findOrCreateFolder called in sequence *)

\* the folders under parentId whose title is part, ignoring case, among the
\* nodes with an id below limit
FoldersNamed(parentId, part, limit) ==
    {c \in DOMAIN nodes :
        /\ c < limit
        /\ c # parentId
        /\ nodes[c].parentId = parentId
        /\ nodes[c].url = "none"
        /\ LowerStr(nodes[c].title) = <<Lower(part)>>}

\* how many leading parts lead to a folder among the nodes below limit
RECURSIVE PresentParts(_, _, _)
PresentParts(parentId, parts, limit) ==
    IF parts = <<>> \/ FoldersNamed(parentId, Head(parts), limit) = {}
    THEN 0
    ELSE 1 + PresentParts(SetMin(FoldersNamed(parentId, Head(parts), limit)),
                          Tail(parts), limit)

\* no folder has two child folders with the same title, ignoring case
NoDuplicateSiblings ==
    \A a, b \in DOMAIN nodes :
        (/\ a # b
         /\ nodes[a].url = "none" /\ nodes[b].url = "none"
         /\ nodes[a].parentId = nodes[b].parentId)
        => LowerStr(nodes[a].title) # LowerStr(nodes[b].title)

\* C23: of two calls of findOrCreateFolder, one after the other has returned,
\* with the same path or with paths that differ in letter case only, the
\* second returns the folder id of the first and creates no folder; every
\* call creates only the folders missing along its path, and no folder ever
\* has two child folders with the same title ignoring case
C23_SequentialIdempotent ==
    /\ \A i, j \in 1..Len(sq.calls) :
          (/\ i < j
           /\ sq.calls[i].ok /\ sq.calls[j].ok
           /\ LowerStr(sq.calls[i].path) = LowerStr(sq.calls[j].path))
          => /\ sq.calls[j].id = sq.calls[i].id
             /\ sq.calls[j].created = 0
    /\ \A i \in 1..Len(sq.calls) :
          sq.calls[i].ok =>
              LET parts == parseCategoryPath(sq.calls[i].path)
              IN  sq.calls[i].created =
                    Len(parts) - PresentParts(BarId, parts, sq.calls[i].before)
    /\ NoDuplicateSiblings

\* a call created a folder and a later call with the path in another case
\* returned
C23_Witness ==
    /\ Len(sq.calls) >= 2
    /\ sq.calls[1].ok /\ sq.calls[1].created = 1
    /\ sq.calls[1].path = <<"Tech", "ai">>
    /\ sq.calls[2].ok
    /\ sq.calls[2].path = <<"tech", "AI">>

----------------------------------------------------------------------------
(* Claims about parseCategoryPath and buildCategoryPath *)

\* the segment starts with an upper-case character or one without case
StartsUpperOrCaseless(s) == s \in {"Ai", "AI", "Tech", " ai"}

WellFormedPath(p) ==
    \A i \in 1..Len(p) : ~IsBlank(p[i]) /\ StartsUpperOrCaseless(p[i])

\* the segment with its first character in upper case
UpperFirst(s) ==
    CASE s = "ai" -> "Ai"
      [] s = "tech" -> "Tech"
      [] s = "(sharp s)eta" -> "SSeta"
      [] OTHER -> s

\* the path without its blank segments, each with its first character in
\* upper case
NormalizedPath(p) ==
    LET kept == SelectSeq(p, NotBlank)
    IN  IF kept = <<>> THEN <<"">> ELSE [i \in 1..Len(kept) |-> UpperFirst(kept[i])]

\* C24: buildCategoryPath(parseCategoryPath(p)) is p itself when every
\* segment of p is non-blank and starts with an upper-case or case-less
\* character; for every string p it is p without its blank segments and with
\* the first character of each segment in upper case; and the round trip
\* applied to its own result gives that result again
C24_RoundTrip ==
    (cp.pc = "returned" /\ cp.isString) =>
        /\ WellFormedPath(cp.path) => cp.built = cp.path
        /\ cp.built = NormalizedPath(cp.path)
        /\ cp.again = cp.built

\* a path with a blank segment and a lower-case segment went through the
\* round trip
C24_Witness ==
    /\ cp.pc = "returned"
    /\ cp.isString
    /\ cp.path = <<"Tech", " ", "ai">>
    /\ cp.built = <<"Tech", "Ai">>

----------------------------------------------------------------------------
(* Claims about executeWithRecovery *)

\* fn is invoked at most maxRetries times under RETRY and once under the
\* other strategies, and never again after it succeeded
InvocationsBounded ==
    er.maxRetries >= 1 =>
        /\ er.strategy = "retry" => er.invoked <= er.maxRetries
        /\ er.strategy # "retry" =>
              /\ er.invoked <= 1
              /\ er.pc \in {"fn", "switch", "done"} => er.invoked = 1
        /\ er.succeeded <= 1
        /\ er.succeeded = 1 =>
              /\ er.pc = "done"
              /\ er.outcome = [how |-> "returned", value |-> "result",
                               error |-> NoLastError]

\* the outcome the strategy prescribes when every attempt failed
OutcomeByStrategy ==
    CASE er.strategy = "fallback" ->
           er.outcome = [how |-> "returned", value |-> er.fallbackValue,
                         error |-> NoLastError]
      [] er.strategy = "ignore" ->
           er.outcome = [how |-> "returned", value |-> "null", error |-> NoLastError]
      [] OTHER ->
           /\ er.outcome = [how |-> "threw", value |-> "lastError",
                            error |-> er.lastError]
           /\ er.lastError.at = er.invoked
           /\ er.strategy = "retry" => er.invoked = er.maxRetries

\* C25: executeWithRecovery invokes fn at most maxRetries times under RETRY
\* and exactly once under FALLBACK, IGNORE and FAIL (maxRetries >= 1), returns
\* the first successful result without invoking fn again, and when every
\* attempt failed returns fallbackValue under FALLBACK, null under IGNORE,
\* and rethrows the last error under FAIL and under exhausted RETRY
C25_RecoveryResults ==
    /\ InvocationsBounded
    /\ (er.maxRetries >= 1 /\ er.pc = "done" /\ er.succeeded = 0)
          => OutcomeByStrategy

\* the same for functions that reject with an Error or another value that
\* has toString
C25_RecoveryResultsOfErrors ==
    /\ InvocationsBounded
    /\ (/\ er.maxRetries >= 1 /\ er.pc = "done" /\ er.succeeded = 0
        /\ er.lastError.kind # "nullish")
          => OutcomeByStrategy

----------------------------------------------------------------------------
(* Claims about findOrCreateFolder called concurrently *)

\* C26: whatever the interleaving of the calls of findOrCreateFolder that
\* run at the same time, no folder ever has two child folders whose titles
\* are equal ignoring case
C26_NoDuplicatesUnderInterleaving ==
    \A parent \in DOMAIN nodes :
        \A a, b \in ChildIds(parent) :
            (a # b /\ nodes[a].url = "none" /\ nodes[b].url = "none")
            => LowerStr(nodes[a].title) # LowerStr(nodes[b].title)

----------------------------------------------------------------------------
(* Claims about BookmarkClassifier *)

\* at most one message is unanswered, isClassifying is true exactly while
\* one is, and a message is sent only when none is unanswered
OneRequestInFlight ==
    /\ Cardinality(bc.inFlight) <= 1
    /\ bc.isClassifying <=> bc.inFlight # {}

\* C27: for any interleaving of classify() and cancelClassification() on one
\* BookmarkClassifier at most one classification request is in flight, and
\* isClassifying is true exactly while a request is in flight
C27_OneRequestInFlight == OneRequestInFlight

\* the same while cancelClassification has not cleared the flag
C27_OneRequestInFlightUncancelled == bc.cancels = 0 => OneRequestInFlight

----------------------------------------------------------------------------
(* Claims about MigrationController *)

\* C28: at every point selectedProposals holds only indices of
\* currentProposals that were selected since the most recent startMigration,
\* and executeSelectedMigrations executes only proposals of the current
\* review selected in that review
C28_SelectionOfCurrentReview ==
    /\ \A i \in mc.selectedProposals :
          /\ i < mc.currentProposals
          /\ mc.pc # "proposing" => mc.chosenIn[i] = mc.review
    /\ \A k \in 1..Len(mc.executed) :
          \A move \in mc.executed[k] :
              move.defined /\ move.chosenIn = move.ofReview

\* the same while no startMigration found indices already selected and no
\* scheduled reset is outstanding
C28_SelectionOfCurrentReviewFromEmpty ==
    (~mc.carried /\ ~mc.timer) =>
        /\ \A i \in mc.selectedProposals :
              /\ i < mc.currentProposals
              /\ mc.chosenIn[i] = mc.review
        /\ \A k \in 1..Len(mc.executed) :
              \A move \in mc.executed[k] :
                  move.defined /\ move.chosenIn = move.ofReview

----------------------------------------------------------------------------
(* Claims about NotificationManager *)

\* C29: at most one drain loop of the queue runs at a time, and isProcessing
\* is false again whenever no drain loop is running, even if showing an
\* earlier notification failed
C29_FlagClearedAfterDrain ==
    /\ nm.drains <= 1
    /\ nm.drains = 0 => ~nm.isProcessing

\* C29, the part on delivery: every notification passed to notify is
\* eventually shown
C29_EveryNotificationShown ==
    \A id \in 1..MaxNotes :
        (nm.notified >= id) ~> (\E k \in 1..Len(nm.shown) : nm.shown[k] = id)

\* what holds in every run: one drain loop at most, notifications shown in
\* the order they were queued, and while no notification was rejected the
\* flag is clear whenever no loop runs, with nothing left in the queue
C29_OneDrainInOrder ==
    /\ nm.drains <= 1
    /\ \A j, k \in 1..Len(nm.shown) : j < k => nm.shown[j] < nm.shown[k]
    /\ (nm.rejected = <<>> /\ nm.drains = 0) =>
          ~nm.isProcessing /\ nm.notificationQueue = <<>>

----------------------------------------------------------------------------
(* Claims about migrateSettings *)

\* a run after one that returned writes nothing to storage
SecondRunWritesNothing ==
    (cm.run = 2 /\ cm.earlier >= 1) => cm.writes = 0

\* C30: when migrateSettings has returned, the stored configOverrides hold
\* the migrated value of every key the report lists as migrated, and a second
\* run performs no storage writes
C30_MigratedKeysStored ==
    /\ (cm.run = 1 /\ cm.pc = "returned") =>
          (cm.migrated \cap OverrideKeys) \subseteq cm.configOverrides
    /\ SecondRunWritesNothing

\* what the stored configOverrides hold instead: the value of the last key
\* that was saved, alone
C30_LastMigratedKeyStored ==
    /\ (cm.run = 1 /\ cm.pc = "returned") =>
          /\ Cardinality(cm.configOverrides) <= 1
          /\ cm.configOverrides \subseteq cm.migrated
          /\ (cm.migrated \cap OverrideKeys) # {} => cm.configOverrides # {}
    /\ SecondRunWritesNothing

====
